---- MODULE Spec2Model ----
(***************************************************************************)
(* Route-planning engine of the running-art repository: road graph, cost   *)
(* kernel, A* closed-walk finder, Pareto filter and the route finder that  *)
(* sweeps (rotation x weight) pairs.                                       *)
(*                                                                         *)
(* Numbers.  Python floats are held as exact integers in fixed units:      *)
(*   - coordinates (lat, lng) in grid units of 100 m;                      *)
(*   - geographic distances and edge lengths in units of 10 m;             *)
(*   - weights in percent (alpha + beta + gamma = 100);                    *)
(*   - every cost of one A* invocation (edge cost, g, h, f, total cost) is *)
(*     the code's value times CostScale(L, K) = 600 * L * (K + 1), which   *)
(*     clears the divisions by L*, by K* + 1, by the 3 samples of an edge  *)
(*     and the 0.5 of the heuristic; L and K are fixed per invocation, so  *)
(*     every comparison the code makes keeps its outcome.                  *)
(***************************************************************************)
EXTENDS Integers, Sequences, FiniteSets, TLC

VARIABLES graph, finder, pareto, routes, cost, value, cache, calls

vars == <<graph, finder, pareto, routes, cost, value, cache, calls>>

(***************************************************************************)
(* Generic sequence helpers                                                *)
(***************************************************************************)
Range(s) == {s[i] : i \in DOMAIN s}

Contains(s, x) == \E i \in DOMAIN s : s[i] = x

Last(s) == s[Len(s)]

RECURSIVE SumSeq(_)
SumSeq(s) == IF s = <<>> THEN 0 ELSE Head(s) + SumSeq(Tail(s))

Abs(x) == IF x < 0 THEN -x ELSE x

Max(a, b) == IF a >= b THEN a ELSE b

Min(a, b) == IF a <= b THEN a ELSE b

\* ascending enumeration of a finite set of integers (iteration order of a
\* Python set of small ints)
RECURSIVE SortedSeq(_)
SortedSeq(S) ==
    IF S = {} THEN <<>>
    ELSE LET m == CHOOSE x \in S : \A y \in S : x <= y
         IN  <<m>> \o SortedSeq(S \ {m})

(***************************************************************************)
(* Road graph (data/entities.py)                                           *)
(***************************************************************************)
Node(id, lat, lng, light) ==
    [id |-> id, lat |-> lat, lng |-> lng, has_traffic_light |-> light]

Edge(id, src, tgt, len, oneway) ==
    [id |-> id, source_id |-> src, target_id |-> tgt, length |-> len,
     is_oneway |-> oneway]

\* RoadGraph(): the dicts nodes and edges keep insertion order, so each is a
\* sequence of records with pairwise distinct ids; _adjacency is a function
\* from the keys present to neighbour sets.
EmptyGraph == [nodes |-> <<>>, edges |-> <<>>, adjacency |-> <<>>]

\* dict[key] = value on an insertion-ordered dict of records keyed by id
DictPut(d, rec) ==
    IF \E i \in DOMAIN d : d[i].id = rec.id
    THEN [i \in DOMAIN d |-> IF d[i].id = rec.id THEN rec ELSE d[i]]
    ELSE Append(d, rec)

AdjKeys(g) == DOMAIN g.adjacency

\* sets the key to the empty set even when it is present
AdjReset(adj, k) == [x \in DOMAIN adj \cup {k} |-> IF x = k THEN {} ELSE adj[x]]

\* "if k not in self._adjacency: self._adjacency[k] = set()"
AdjEnsure(adj, k) ==
    IF k \in DOMAIN adj THEN adj
    ELSE [x \in DOMAIN adj \cup {k} |-> IF x = k THEN {} ELSE adj[x]]

AdjAdd(adj, k, v) == [adj EXCEPT ![k] = @ \cup {v}]

add_node(g, node) ==
    [g EXCEPT !.nodes = DictPut(@, node),
              !.adjacency = AdjEnsure(@, node.id)]

add_edge(g, edge) ==
    LET a1 == AdjEnsure(AdjEnsure(g.adjacency, edge.source_id), edge.target_id)
        a2 == AdjAdd(a1, edge.source_id, edge.target_id)
        a3 == IF ~edge.is_oneway
              THEN AdjAdd(a2, edge.target_id, edge.source_id) ELSE a2
    IN  [g EXCEPT !.edges = DictPut(@, edge), !.adjacency = a3]

HasNode(g, id) == \E i \in DOMAIN g.nodes : g.nodes[i].id = id

\* get_node(id) for an id that is present; "not node" is ~HasNode(g, id)
get_node(g, id) ==
    g.nodes[CHOOSE i \in DOMAIN g.nodes : g.nodes[i].id = id]

get_neighbors(g, id) ==
    IF id \in DOMAIN g.adjacency THEN g.adjacency[id] ELSE {}

\* a node table that stores an entry for every id it is asked for
after_get_node_insert(g, id) ==
    IF \E i \in DOMAIN g.nodes : g.nodes[i].id = id THEN g
    ELSE [g EXCEPT !.nodes = Append(@, Node(id, 0, 0, FALSE))]

\* the graph after get_node(id): "self.nodes.get(node_id)" stores nothing
after_get_node(g, id) == g

\* the graph after get_neighbors(id): "self._adjacency.get(node_id, set())"
\* returns the default without storing it
after_get_neighbors(g, id) == g

\* the graph after the lookups get_node(id) for id in node_ids and
\* get_neighbors(id) for id in neighbor_ids
RECURSIVE after_lookups(_, _, _)
after_lookups(g, node_ids, neighbor_ids) ==
    IF node_ids # {}
    THEN LET id == CHOOSE x \in node_ids : \A y \in node_ids : x <= y
         IN  after_lookups(after_get_node(g, id), node_ids \ {id}, neighbor_ids)
    ELSE IF neighbor_ids # {}
    THEN LET id == CHOOSE x \in neighbor_ids : \A y \in neighbor_ids : x <= y
         IN  after_lookups(after_get_neighbors(g, id), node_ids,
                           neighbor_ids \ {id})
    ELSE g

EdgeMatches(e, s, t) ==
    \/ (e.source_id = s /\ e.target_id = t)
    \/ (~e.is_oneway /\ e.source_id = t /\ e.target_id = s)

HasEdgeBetween(g, s, t) ==
    \E i \in DOMAIN g.edges : EdgeMatches(g.edges[i], s, t)

\* first edge in insertion order that joins s to t; "not edge" is
\* ~HasEdgeBetween(g, s, t)
get_edge_between(g, s, t) ==
    LET hits == {i \in DOMAIN g.edges : EdgeMatches(g.edges[i], s, t)}
    IN  g.edges[CHOOSE i \in hits : \A j \in hits : i <= j]

(***************************************************************************)
(* Geometry (cost/cost_function.py, algorithm/astar.py)                    *)
(***************************************************************************)
RECURSIVE ISqrtIn(_, _, _)
ISqrtIn(n, lo, hi) ==
    IF lo >= hi THEN lo
    ELSE LET mid == (lo + hi + 1) \div 2
         IN  IF mid * mid <= n THEN ISqrtIn(n, mid, hi)
             ELSE ISqrtIn(n, lo, mid - 1)

\* floor of the square root
ISqrt(n) == IF n <= 0 THEN 0 ELSE ISqrtIn(n, 0, Min(n, 46340))

Coordinate(lat, lng) == [lat |-> lat, lng |-> lng]

\* great-circle distance of two points; on the few-kilometre working area it
\* is the planar distance, here floor(10 * sqrt(dlat^2 + dlng^2)) in 10 m
haversine(lat1, lng1, lat2, lng2) ==
    ISqrt(100 * ((lat2 - lat1) * (lat2 - lat1) + (lng2 - lng1) * (lng2 - lng1)))

\* distance of point (plat, plng) to the segment seg_start..seg_end: project
\* with t clamped to [0, 1], then haversine to the projected point. For
\* 0 < t < 1 the squared distance to the projection is |w|^2 - n^2 / |d|^2.
point_to_segment_distance(plat, plng, seg_start, seg_end) ==
    LET dx == seg_end.lng - seg_start.lng
        dy == seg_end.lat - seg_start.lat
        seg_len_sq == dx * dx + dy * dy
        wx == plng - seg_start.lng
        wy == plat - seg_start.lat
        n  == wx * dx + wy * dy
    IN  IF seg_len_sq = 0
        THEN haversine(plat, plng, seg_start.lat, seg_start.lng)
        ELSE IF n <= 0
        THEN haversine(plat, plng, seg_start.lat, seg_start.lng)
        ELSE IF n >= seg_len_sq
        THEN haversine(plat, plng, seg_end.lat, seg_end.lng)
        ELSE ISqrt(100 * (wx * wx + wy * wy) - (100 * n * n) \div seg_len_sq)

\* min over the segments of the target curve (curve has >= 2 points)
point_to_curve_distance(curve, plat, plng) ==
    LET ds == {point_to_segment_distance(plat, plng, curve[i], curve[i + 1]) :
                  i \in 1..(Len(curve) - 1)}
    IN  CHOOSE d \in ds : \A e \in ds : d <= e

\* min_samples = 3: t = 0, 1/2, 1
sample_edge_points(node1, node2) ==
    << Coordinate(node1.lat, node1.lng),
       Coordinate((node1.lat + node2.lat) \div 2, (node1.lng + node2.lng) \div 2),
       Coordinate(node2.lat, node2.lng) >>

\* ShapeDistanceCalculator.calculate_edge_distance, times the 3 samples
calculate_edge_distance(curve, node1, node2) ==
    LET samples == sample_edge_points(node1, node2)
    IN  SumSeq([i \in DOMAIN samples |->
                  point_to_curve_distance(curve, samples[i].lat, samples[i].lng)])

\* ShapeDistanceCalculator.calculate_path_distance, times the 3 samples
calculate_path_distance(curve, path, g) ==
    IF Len(path) < 2 THEN 0
    ELSE SumSeq([i \in 1..(Len(path) - 1) |->
            IF HasNode(g, path[i]) /\ HasNode(g, path[i + 1])
            THEN calculate_edge_distance(curve, get_node(g, path[i]),
                                         get_node(g, path[i + 1]))
            ELSE 0])

\* LengthPenaltyCalculator.calculate_path_length (10 m)
calculate_path_length(path, g) ==
    IF Len(path) < 2 THEN 0
    ELSE SumSeq([i \in 1..(Len(path) - 1) |->
            IF HasEdgeBetween(g, path[i], path[i + 1])
            THEN get_edge_between(g, path[i], path[i + 1]).length
            ELSE 0])

\* counts the signalised nodes of the whole path, both ends included
count_traffic_lights_ends(path, g) ==
    Cardinality({i \in DOMAIN path :
        HasNode(g, path[i]) /\ get_node(g, path[i]).has_traffic_light})

\* CrossingPenaltyCalculator.count_traffic_lights: path[1:-1]
count_traffic_lights(path, g) ==
    IF Len(path) <= 2 THEN 0
    ELSE Cardinality({i \in 2..(Len(path) - 1) :
            HasNode(g, path[i]) /\ get_node(g, path[i]).has_traffic_light})

\* CrossingPenaltyCalculator.calculate_penalty
crossing_raw_penalty(path, g, K) == Max(0, count_traffic_lights(path, g) - K)

\* CrossingPenaltyCalculator.calculate_normalized_penalty: the quotient
\* raw_penalty / (max_crossings + 1) as numerator and denominator
calculate_normalized_penalty(path, g, K) ==
    [num |-> crossing_raw_penalty(path, g, K), den |-> K + 1]

\* CrossingPenaltyCalculator(max_crossings)
CrossingPenaltyCalculator(max_crossings) ==
    IF max_crossings < 0 THEN [op |-> "raised"]
    ELSE [op |-> "new", max_crossings |-> max_crossings]

\* the constructors of the three calculators raise ValueError
CostCalculatorRaises(curve, L, K) == Len(curve) < 2 \/ L <= 0 \/ K < 0

\* CostCalculator.calculate on a path of >= 2 nodes. shape_distance is the
\* code's value times 3L, length_penalty times L, crossing_penalty times K+1,
\* total_cost times 600 L (K+1).
calculate(curve, L, K, w, path, g) ==
    LET shape == calculate_path_distance(curve, path, g)
        plen  == calculate_path_length(path, g)
        lpen  == Abs(plen - L)
        cpen  == crossing_raw_penalty(path, g, K)
    IN  [shape_distance |-> shape,
         length_penalty |-> lpen,
         crossing_penalty |-> cpen,
         total_cost |-> 2 * (K + 1) * (w[1] * shape + 3 * w[2] * lpen)
                        + 6 * w[3] * cpen * L,
         path_length |-> plen,
         traffic_light_count |-> count_traffic_lights(path, g)]

\* CostCalculator.calculate_edge_cost, times 600 L (K+1)
calculate_edge_cost(curve, L, K, w, node1, node2, edge) ==
    2 * (K + 1) * (w[1] * calculate_edge_distance(curve, node1, node2)
                   + 3 * w[2] * edge.length)
    + (IF node2.has_traffic_light THEN 6 * w[3] * L ELSE 0)

\* AStarPathFinder._heuristic, times 600 L (K+1)
heuristic(curve, L, K, w, current_node, goal_node, current_length) ==
    LET dist_to_goal == haversine(current_node.lat, current_node.lng,
                                  goal_node.lat, goal_node.lng)
        remaining == Max(0, L - current_length)
        min_curve_dist == point_to_curve_distance(curve, current_node.lat,
                                                  current_node.lng)
    IN  3 * (K + 1) * (w[1] * min_curve_dist
                       + w[2] * Abs(remaining - dist_to_goal))

(***************************************************************************)
(* heapq on a list of PriorityItem; order=True compares priority only      *)
(* (algorithm/astar.py, PriorityItem).  Index i of the Python list is      *)
(* heap[i + 1].                                                            *)
(***************************************************************************)
PriorityItem(priority, node_id, path, g_cost, path_length, lights) ==
    [priority |-> priority, node_id |-> node_id, path |-> path,
     g_cost |-> g_cost, path_length |-> path_length,
     traffic_light_count |-> lights]

\* PriorityItem.__lt__
ItemLess(a, b) == a.priority < b.priority

RECURSIVE siftdown(_, _, _, _)
siftdown(heap, startpos, pos, newitem) ==
    IF pos > startpos
    THEN LET parentpos == (pos - 1) \div 2
             parent == heap[parentpos + 1]
         IN  IF ItemLess(newitem, parent)
             THEN siftdown([heap EXCEPT ![pos + 1] = parent], startpos,
                           parentpos, newitem)
             ELSE [heap EXCEPT ![pos + 1] = newitem]
    ELSE [heap EXCEPT ![pos + 1] = newitem]

RECURSIVE siftup_walk(_, _, _, _)
siftup_walk(heap, pos, newitem, startpos) ==
    LET endpos == Len(heap)
        childpos == 2 * pos + 1
    IN  IF childpos < endpos
        THEN LET rightpos == childpos + 1
                 c == IF rightpos < endpos
                         /\ ~ItemLess(heap[childpos + 1], heap[rightpos + 1])
                      THEN rightpos ELSE childpos
             IN  siftup_walk([heap EXCEPT ![pos + 1] = heap[c + 1]], c,
                             newitem, startpos)
        ELSE siftdown([heap EXCEPT ![pos + 1] = newitem], startpos, pos,
                      newitem)

siftup(heap, pos) == siftup_walk(heap, pos, heap[pos + 1], pos)

heappush(heap, item) ==
    siftdown(Append(heap, item), 0, Len(heap), item)

\* heappop on a non-empty heap: <<returned item, heap afterwards>>
heappop(heap) ==
    LET lastelt == heap[Len(heap)]
        rest == SubSeq(heap, 1, Len(heap) - 1)
    IN  IF rest = <<>> THEN <<lastelt, rest>>
        ELSE <<rest[1], siftup([rest EXCEPT ![1] = lastelt], 0)>>

(***************************************************************************)
(* A* closed-walk finder (algorithm/astar.py)                              *)
(***************************************************************************)
Inf == [inf |-> TRUE, v |-> 0]

Fin(x) == [inf |-> FALSE, v |-> x]

\* float comparison a < b with +inf
NumLess(a, b) == ~a.inf /\ (b.inf \/ a.v < b.v)

PathCandidate(path, g_cost, cost_result) ==
    [path |-> path, g_cost |-> g_cost, f_cost |-> cost_result.total_cost,
     shape_distance |-> cost_result.shape_distance,
     length_penalty |-> cost_result.length_penalty,
     crossing_penalty |-> cost_result.crossing_penalty,
     path_length |-> cost_result.path_length,
     traffic_light_count |-> cost_result.traffic_light_count]

\* AStarPathFinder.__init__: the search state of one finder object. pc is
\* "raised" when CostCalculator's constructors reject the arguments.
AStarPathFinder(curve, L, K, w) ==
    [pc |-> IF CostCalculatorRaises(curve, L, K) THEN "raised" ELSE "new",
     target_curve |-> curve, target_distance |-> L, max_crossings |-> K,
     weights |-> w, start_node_id |-> 0, goal_node_id |-> 0,
     max_iterations |-> 0,
     open_set |-> <<>>, visited |-> <<>>, best_candidate |-> <<>>,
     best_cost |-> Inf, iterations |-> 0, result |-> <<>>]

\* find_path up to the loop: unknown start returns None, else push the start
find_path_enter(g, fs, start, max_iterations) ==
    IF ~HasNode(g, start)
    THEN [fs EXCEPT !.pc = "done", !.start_node_id = start,
                    !.max_iterations = max_iterations]
    ELSE [fs EXCEPT !.pc = "loop", !.start_node_id = start,
                    !.max_iterations = max_iterations,
                    !.open_set = heappush(<<>>,
                                   PriorityItem(0, start, <<start>>, 0, 0, 0))]

\* closure test that accepts a walk of three entries (len(current_path) > 2)
IsClosureShort(fs, current) ==
    current.node_id = fs.start_node_id /\ Len(current.path) > 2

\* "if current_node_id == start_node_id and len(current_path) > 3"
IsClosure(fs, current) ==
    current.node_id = fs.start_node_id /\ Len(current.path) > 3

\* membership test that forgets the node just reached (current_path[1:-1])
InPathTailButLast(path, neighbor_id) ==
    \E i \in 2..(Len(path) - 1) : path[i] = neighbor_id

\* a membership test that only looks at the last two entries of the prefix
InPathTailRecent(path, neighbor_id) ==
    \E i \in 2..Len(path) : i >= Len(path) - 1 /\ path[i] = neighbor_id

\* "if neighbor_id in current_path[1:]: continue"
InPathTail(path, neighbor_id) ==
    \E i \in 2..Len(path) : path[i] = neighbor_id

\* length_bucket = int(current_length * 10): 100 m buckets
LengthBucket(current_length) == current_length \div 10

\* a key that ignores the length bucket
VisitKeyNode(current) == <<current.node_id, 0>>

\* visit_key = (current_node_id, length_bucket)
VisitKey(current) == <<current.node_id, LengthBucket(current.path_length)>>

\* "visit_key in visited and visited[visit_key] <= current_g"
VisitedSkips(fs, current) ==
    /\ VisitKey(current) \in DOMAIN fs.visited
    /\ fs.visited[VisitKey(current)] <= current.g_cost

VisitedPut(visited, key, val) ==
    [k \in DOMAIN visited \cup {key} |-> IF k = key THEN val ELSE visited[k]]

\* body of the neighbour loop for one neighbour: the open set afterwards
expand_neighbor(g, fs, current, open_set, neighbor_id) ==
    IF InPathTail(current.path, neighbor_id) THEN open_set
    ELSE IF ~HasNode(g, neighbor_id) THEN open_set
    ELSE IF ~HasEdgeBetween(g, current.node_id, neighbor_id) THEN open_set
    ELSE
      LET current_node == get_node(g, current.node_id)
          neighbor_node == get_node(g, neighbor_id)
          start_node == get_node(g, fs.start_node_id)
          edge == get_edge_between(g, current.node_id, neighbor_id)
          new_path == Append(current.path, neighbor_id)
          new_length == current.path_length + edge.length
          new_lights == IF neighbor_node.has_traffic_light
                           /\ neighbor_id # fs.start_node_id
                        THEN current.traffic_light_count + 1
                        ELSE current.traffic_light_count
          new_g == current.g_cost
                   + calculate_edge_cost(fs.target_curve, fs.target_distance,
                        fs.max_crossings, fs.weights, current_node,
                        neighbor_node, edge)
          h_cost == heuristic(fs.target_curve, fs.target_distance,
                        fs.max_crossings, fs.weights, neighbor_node,
                        start_node, new_length)
      IN  heappush(open_set, PriorityItem(new_g + h_cost, neighbor_id,
                       new_path, new_g, new_length, new_lights))

RECURSIVE expand_neighbors(_, _, _, _, _)
expand_neighbors(g, fs, current, open_set, todo) ==
    IF todo = <<>> THEN open_set
    ELSE expand_neighbors(g, fs, current,
             expand_neighbor(g, fs, current, open_set, Head(todo)), Tail(todo))

\* one pass of "while open_set and iterations < max_iterations"
find_path_iteration(g, fs) ==
    LET popped == heappop(fs.open_set)
        current == popped[1]
        f1 == [fs EXCEPT !.iterations = @ + 1, !.open_set = popped[2]]
    IN  IF IsClosure(fs, current)
        THEN LET cost_result == calculate(fs.target_curve, fs.target_distance,
                                    fs.max_crossings, fs.weights,
                                    current.path, g)
             IN  IF NumLess(Fin(cost_result.total_cost), fs.best_cost)
                 THEN [f1 EXCEPT !.best_cost = Fin(cost_result.total_cost),
                           !.best_candidate =
                              <<PathCandidate(current.path, current.g_cost,
                                              cost_result)>>]
                 ELSE f1
        ELSE IF VisitedSkips(fs, current) THEN f1
        ELSE LET f2 == [f1 EXCEPT !.visited =
                           VisitedPut(@, VisitKey(current), current.g_cost)]
             IN  IF ~HasNode(g, current.node_id) THEN f2
                 ELSE [f2 EXCEPT !.open_set =
                          expand_neighbors(g, fs, current, f1.open_set,
                             SortedSeq(get_neighbors(g, current.node_id)))]

\* the node ids one pass of the loop hands to get_node: the nodes of a
\* closure (cost kernel), or the node expanded and the neighbours it tries
iteration_node_reads(g, fs) ==
    LET current == heappop(fs.open_set)[1]
    IN  IF IsClosure(fs, current) THEN Range(current.path)
        ELSE IF VisitedSkips(fs, current) THEN {}
        ELSE IF ~HasNode(g, current.node_id) THEN {current.node_id}
        ELSE {current.node_id}
             \cup {x \in get_neighbors(g, current.node_id) :
                      ~InPathTail(current.path, x)}

\* the node ids one pass of the loop hands to get_neighbors
iteration_neighbor_reads(g, fs) ==
    LET current == heappop(fs.open_set)[1]
    IN  IF IsClosure(fs, current) \/ VisitedSkips(fs, current)
           \/ ~HasNode(g, current.node_id)
        THEN {}
        ELSE {current.node_id}

\* the ids a whole find_path handed to get_node, from its final state: start,
\* every node expanded and every neighbour of one (a neighbour refused as
\* already in the prefix was looked up when it was appended)
find_path_node_reads(g, fs) ==
    {fs.start_node_id}
    \cup UNION {{k[1]} \cup get_neighbors(g, k[1]) : k \in DOMAIN fs.visited}

find_path_neighbor_reads(fs) == {k[1] : k \in DOMAIN fs.visited}

\* a loop test without the iteration budget
LoopContinuesUnbounded(fs) == fs.open_set # <<>>

\* "while open_set and iterations < max_iterations"
LoopContinues(fs) ==
    fs.open_set # <<>> /\ fs.iterations < fs.max_iterations

\* "return best_candidate"
find_path_return(fs) == [fs EXCEPT !.pc = "done", !.result = fs.best_candidate]

\* find_path run to its return (used where a caller runs a whole search)
RECURSIVE find_path_loop(_, _)
find_path_loop(g, fs) ==
    IF fs.pc # "loop" THEN fs
    ELSE IF LoopContinues(fs) THEN find_path_loop(g, find_path_iteration(g, fs))
    ELSE find_path_return(fs)

find_path(g, fs, start, max_iterations) ==
    find_path_loop(g, find_path_enter(g, fs, start, max_iterations))

\* AStarPathFinder._simple_heuristic, times 600 L (K+1)
simple_heuristic(K, w, current_node, goal_node) ==
    6 * (K + 1) * w[2] * haversine(current_node.lat, current_node.lng,
                                   goal_node.lat, goal_node.lng)

\* find_path_to_goal up to the loop: None when start or goal is unknown
find_path_to_goal_enter(g, fs, start, goal, max_iterations) ==
    LET f0 == [fs EXCEPT !.start_node_id = start, !.goal_node_id = goal,
                         !.max_iterations = max_iterations]
    IN  IF ~HasNode(g, start) \/ ~HasNode(g, goal)
        THEN [f0 EXCEPT !.pc = "goal_done"]
        ELSE [f0 EXCEPT !.pc = "goal_loop",
                        !.open_set = heappush(<<>>,
                                       PriorityItem(0, start, <<start>>, 0, 0, 0))]

\* body of the neighbour loop of find_path_to_goal for one neighbour
goal_expand_neighbor(g, fs, current, open_set, neighbor_id) ==
    IF Contains(current.path, neighbor_id) THEN open_set
    ELSE IF ~HasNode(g, neighbor_id) THEN open_set
    ELSE IF ~HasEdgeBetween(g, current.node_id, neighbor_id) THEN open_set
    ELSE
      LET current_node == get_node(g, current.node_id)
          neighbor_node == get_node(g, neighbor_id)
          edge == get_edge_between(g, current.node_id, neighbor_id)
          new_lights == IF neighbor_node.has_traffic_light
                        THEN current.traffic_light_count + 1
                        ELSE current.traffic_light_count
          new_g == current.g_cost
                   + calculate_edge_cost(fs.target_curve, fs.target_distance,
                        fs.max_crossings, fs.weights, current_node,
                        neighbor_node, edge)
          h_cost == simple_heuristic(fs.max_crossings, fs.weights,
                        neighbor_node, get_node(g, fs.goal_node_id))
      IN  heappush(open_set, PriorityItem(new_g + h_cost, neighbor_id,
                       Append(current.path, neighbor_id), new_g,
                       current.path_length + edge.length, new_lights))

RECURSIVE goal_expand_neighbors(_, _, _, _, _)
goal_expand_neighbors(g, fs, current, open_set, todo) ==
    IF todo = <<>> THEN open_set
    ELSE goal_expand_neighbors(g, fs, current,
             goal_expand_neighbor(g, fs, current, open_set, Head(todo)),
             Tail(todo))

\* "current_node_id in visited and visited[current_node_id] <= current_g"
GoalVisitedSkips(fs, current) ==
    /\ current.node_id \in DOMAIN fs.visited
    /\ fs.visited[current.node_id] <= current.g_cost

\* one pass of the loop of find_path_to_goal; reaching the goal returns
find_path_to_goal_iteration(g, fs) ==
    LET popped == heappop(fs.open_set)
        current == popped[1]
        f1 == [fs EXCEPT !.iterations = @ + 1, !.open_set = popped[2]]
    IN  IF current.node_id = fs.goal_node_id
        THEN [f1 EXCEPT !.pc = "goal_done",
                        !.result =
                           <<PathCandidate(current.path, current.g_cost,
                                calculate(fs.target_curve, fs.target_distance,
                                          fs.max_crossings, fs.weights,
                                          current.path, g))>>]
        ELSE IF GoalVisitedSkips(fs, current) THEN f1
        ELSE LET f2 == [f1 EXCEPT !.visited =
                           VisitedPut(@, current.node_id, current.g_cost)]
             IN  IF ~HasNode(g, current.node_id) THEN f2
                 ELSE [f2 EXCEPT !.open_set =
                          goal_expand_neighbors(g, fs, current, f1.open_set,
                             SortedSeq(get_neighbors(g, current.node_id)))]

\* the node ids one pass of the loop of find_path_to_goal hands to get_node
goal_iteration_node_reads(g, fs) ==
    LET current == heappop(fs.open_set)[1]
    IN  IF current.node_id = fs.goal_node_id THEN Range(current.path)
        ELSE IF GoalVisitedSkips(fs, current) THEN {}
        ELSE IF ~HasNode(g, current.node_id) THEN {current.node_id}
        ELSE {current.node_id}
             \cup {x \in get_neighbors(g, current.node_id) :
                      ~Contains(current.path, x)}

\* the node ids one pass of the loop of find_path_to_goal hands to
\* get_neighbors
goal_iteration_neighbor_reads(g, fs) ==
    LET current == heappop(fs.open_set)[1]
    IN  IF current.node_id = fs.goal_node_id \/ GoalVisitedSkips(fs, current)
           \/ ~HasNode(g, current.node_id)
        THEN {}
        ELSE {current.node_id}

(***************************************************************************)
(* Pareto filter (algorithm/pareto.py).  Objectives are integers; a        *)
(* crowding distance is +inf or the exact fraction n / d.                  *)
(***************************************************************************)
Objectives(c) == <<c.shape_distance, c.length_penalty, c.crossing_penalty>>

\* ParetoCandidate.from_path_candidate
from_path_candidate(c) ==
    [path_candidate |-> c, objectives |-> Objectives(c), rank |-> 0,
     crowding_distance |-> [inf |-> FALSE, n |-> 0, d |-> 1]]

CrowdInf == [inf |-> TRUE, n |-> 0, d |-> 1]

\* float addition x + n/d with inf + anything = inf
CrowdAdd(x, n, d) ==
    IF x.inf THEN x ELSE [inf |-> FALSE, n |-> x.n * d + n * x.d, d |-> x.d * d]

\* a comparison that ranks +inf below every finite distance
CrowdGreaterInfLast(x, y) ==
    IF x.inf THEN FALSE ELSE y.inf \/ x.n * y.d > y.n * x.d

\* float comparison x > y
CrowdGreater(x, y) ==
    IF x.inf THEN ~y.inf ELSE ~y.inf /\ x.n * y.d > y.n * x.d

CrowdEqual(x, y) == ~CrowdGreater(x, y) /\ ~CrowdGreater(y, x)

\* the loop of dominates over zip(obj1, obj2), with its break
RECURSIVE dominates_loop(_, _, _, _)
dominates_loop(obj1, obj2, i, any_lt) ==
    IF i > Len(obj1) THEN any_lt
    ELSE IF obj1[i] > obj2[i] THEN FALSE
    ELSE dominates_loop(obj1, obj2, i + 1, any_lt \/ obj1[i] < obj2[i])

\* dominance that forgets "strictly better somewhere" (all_leq alone)
dominates_weak(obj1, obj2) == \A i \in DOMAIN obj1 : obj1[i] <= obj2[i]

\* ParetoFilter.dominates (both tuples have the same length)
dominates(obj1, obj2) == dominates_loop(obj1, obj2, 1, FALSE)

\* ParetoFilter.filter_non_dominated
filter_non_dominated(candidates) ==
    LET pareto_candidates ==
            [i \in DOMAIN candidates |-> from_path_candidate(candidates[i])]
        NotDominated(i) ==
            ~\E j \in DOMAIN pareto_candidates :
                 j # i /\ dominates(pareto_candidates[j].objectives,
                                    pareto_candidates[i].objectives)
        kept == SortedSeq({i \in DOMAIN pareto_candidates : NotDominated(i)})
    IN  [k \in DOMAIN kept |-> pareto_candidates[kept[k]]]

\* an index is kept when no candidate at all dominates it, removed or not
non_dominated_of_all(pareto_candidates, remaining) ==
    SelectSeq(remaining,
              LAMBDA i : ~\E j \in DOMAIN pareto_candidates :
                            j # i /\ dominates(pareto_candidates[j].objectives,
                                               pareto_candidates[i].objectives))

\* get_pareto_ranks, the two for loops: the indices of remaining, in order,
\* that no other index of remaining dominates
non_dominated_indices(pareto_candidates, remaining) ==
    SelectSeq(remaining,
              LAMBDA i : ~\E j \in Range(remaining) :
                            j # i /\ dominates(pareto_candidates[j].objectives,
                                               pareto_candidates[i].objectives))

\* get_pareto_ranks up to the while loop
get_pareto_ranks_enter(candidates) ==
    IF candidates = <<>>
    THEN [op |-> "get_pareto_ranks", candidates |-> candidates, k |-> 0,
          result |-> <<>>, pc |-> "done", pareto_candidates |-> <<>>,
          remaining |-> <<>>, current_rank |-> 0]
    ELSE [op |-> "get_pareto_ranks", candidates |-> candidates, k |-> 0,
          result |-> <<>>, pc |-> "loop",
          pareto_candidates |->
              [i \in DOMAIN candidates |-> from_path_candidate(candidates[i])],
          remaining |-> [i \in DOMAIN candidates |-> i],
          current_rank |-> 0]

\* one iteration of "while remaining"
get_pareto_ranks_layer(st) ==
    LET layer == non_dominated_indices(st.pareto_candidates, st.remaining)
    IN  [st EXCEPT
            !.pareto_candidates =
                [i \in DOMAIN @ |->
                    IF Contains(layer, i)
                    THEN [@[i] EXCEPT !.rank = st.current_rank] ELSE @[i]],
            !.remaining = SelectSeq(@, LAMBDA i : ~Contains(layer, i)),
            !.current_rank = @ + 1]

\* "return pareto_candidates"; the locals are gone
get_pareto_ranks_return(st) ==
    [st EXCEPT !.pc = "done", !.result = st.pareto_candidates,
               !.pareto_candidates = <<>>, !.current_rank = 0]

\* the sorts compare keys only: ascending numbers ("asc"), descending
\* crowding distances ("desc"), or descending with ties turned round
KeyBefore(mode, x, y) ==
    CASE mode = "asc" -> x.key < y.key
      [] mode = "desc" -> CrowdGreater(x.key, y.key)
      [] OTHER -> ~CrowdGreater(y.key, x.key)

\* x goes before the first element whose key it is strictly before
RECURSIVE InsertBefore(_, _, _)
InsertBefore(s, x, mode) ==
    IF s = <<>> THEN <<x>>
    ELSE IF KeyBefore(mode, x, Head(s)) THEN <<x>> \o s
    ELSE <<Head(s)>> \o InsertBefore(Tail(s), x, mode)

\* stable sort of [key, val] items: equal keys keep their list order
RECURSIVE StableSort(_, _)
StableSort(s, mode) ==
    IF s = <<>> THEN <<>>
    ELSE InsertBefore(StableSort(SubSeq(s, 1, Len(s) - 1), mode),
                      s[Len(s)], mode)

\* sorted(range(n), key=lambda i: candidates[i].objectives[m])
sorted_indices(candidates, m) ==
    LET items == [i \in DOMAIN candidates |->
                     [key |-> candidates[i].objectives[m], val |-> i]]
        sorted == StableSort(items, "asc")
    IN  [i \in DOMAIN sorted |-> sorted[i].val]

\* the interior loop with "=" written for "+="
crowding_interior_assign(candidates, si, m, obj_range, i) ==
    [k \in DOMAIN candidates |->
        IF \E q \in 2..(Len(si) - 1) : si[q] = k
        THEN LET q == CHOOSE q \in 2..(Len(si) - 1) : si[q] = k
             IN  [candidates[k] EXCEPT !.crowding_distance =
                     [inf |-> FALSE,
                      n |-> candidates[si[q + 1]].objectives[m]
                            - candidates[si[q - 1]].objectives[m],
                      d |-> obj_range]]
        ELSE candidates[k]]

\* "for i in range(1, n - 1)": add the neighbour gap to the interior ones
RECURSIVE crowding_interior(_, _, _, _, _)
crowding_interior(candidates, si, m, obj_range, i) ==
    IF i > Len(si) - 1 THEN candidates
    ELSE LET distance_n == candidates[si[i + 1]].objectives[m]
                           - candidates[si[i - 1]].objectives[m]
             upd == [candidates EXCEPT ![si[i]].crowding_distance =
                        CrowdAdd(@, distance_n, obj_range)]
         IN  crowding_interior(upd, si, m, obj_range, i + 1)

\* body of "for m in range(n_objectives)"
crowding_objective(candidates, m) ==
    LET si == sorted_indices(candidates, m)
        c1 == [candidates EXCEPT ![si[1]].crowding_distance = CrowdInf]
        c2 == [c1 EXCEPT ![si[Len(si)]].crowding_distance = CrowdInf]
        obj_range == c2[si[Len(si)]].objectives[m] - c2[si[1]].objectives[m]
    IN  IF obj_range = 0 THEN c2
        ELSE crowding_interior(c2, si, m, obj_range, 2)

RECURSIVE crowding_objectives(_, _)
crowding_objectives(candidates, m) ==
    IF m > Len(candidates[1].objectives) THEN candidates
    ELSE crowding_objectives(crowding_objective(candidates, m), m + 1)

\* ParetoFilter.calculate_crowding_distance on a list of ParetoCandidate
calculate_crowding_distance(candidates) ==
    IF Len(candidates) <= 2
    THEN [i \in DOMAIN candidates |->
             [candidates[i] EXCEPT !.crowding_distance = CrowdInf]]
    ELSE crowding_objectives(
             [i \in DOMAIN candidates |->
                 [candidates[i] EXCEPT !.crowding_distance =
                     [inf |-> FALSE, n |-> 0, d |-> 1]]], 1)

CrowdItems(front) ==
    [i \in DOMAIN front |-> [key |-> front[i].crowding_distance, val |-> front[i]]]

\* a descending sort that is not stable: of equal keys the later one first
sort_by_crowding_unstable(front) ==
    LET sorted == StableSort(CrowdItems(front), "desc_ties_reversed")
    IN  [i \in DOMAIN sorted |-> sorted[i].val]

\* pareto_front.sort(key=lambda x: x.crowding_distance, reverse=True):
\* descending, equal keys keep their order
sort_by_crowding(front) ==
    LET sorted == StableSort(CrowdItems(front), "desc")
    IN  [i \in DOMAIN sorted |-> sorted[i].val]

\* a slice that is one too long ([:k + 1])
TakeOneMore(s, k) == SubSeq(s, 1, Min(k + 1, Len(s)))

\* s[:k] for k >= 0
Take(s, k) == SubSeq(s, 1, Min(k, Len(s)))

PathCandidatesOf(front) == [i \in DOMAIN front |-> front[i].path_candidate]

\* ParetoFilter.select_top_k
select_top_k(candidates, k) ==
    IF candidates = <<>> THEN <<>>
    ELSE IF Len(candidates) <= k THEN candidates
    ELSE LET pareto_front == filter_non_dominated(candidates)
         IN  IF Len(pareto_front) <= k THEN PathCandidatesOf(pareto_front)
             ELSE PathCandidatesOf(
                      Take(sort_by_crowding(
                               calculate_crowding_distance(pareto_front)), k))

(***************************************************************************)
(* Inputs of the model                                                     *)
(***************************************************************************)
\* largest iteration budget a search is given
MaxIterations == 12

RECURSIVE AddNodes(_, _)
AddNodes(g, ns) ==
    IF ns = <<>> THEN g ELSE AddNodes(add_node(g, Head(ns)), Tail(ns))

RECURSIVE AddEdges(_, _)
AddEdges(g, es) ==
    IF es = <<>> THEN g ELSE AddEdges(add_edge(g, Head(es)), Tail(es))

\* a graph as the loader builds it: every node added, then every edge
BuildGraph(ns, es) == AddEdges(AddNodes(EmptyGraph, ns), es)

\* triangle 1-2-3 with a self-loop at 1 and at 2, a second (parallel) edge
\* 1-2, and an edge to node 7 that was never added
TriangleGraph ==
    BuildGraph(<< Node(1, 0, 0, FALSE), Node(2, 0, 8, TRUE),
                  Node(3, 8, 0, FALSE) >>,
               << Edge(1, 1, 2, 80, FALSE), Edge(2, 2, 3, 110, FALSE),
                  Edge(3, 3, 1, 80, FALSE), Edge(4, 1, 1, 5, FALSE),
                  Edge(5, 2, 1, 60, FALSE), Edge(6, 2, 2, 5, TRUE),
                  Edge(7, 3, 7, 40, FALSE) >>)

\* square 1-2-3-4 with the signalised centre 5 joined to 1 and 3
SquareGraph ==
    BuildGraph(<< Node(1, 0, 0, FALSE), Node(2, 0, 8, FALSE),
                  Node(3, 8, 8, FALSE), Node(4, 8, 0, FALSE),
                  Node(5, 4, 4, TRUE) >>,
               << Edge(1, 1, 2, 80, FALSE), Edge(2, 2, 3, 110, FALSE),
                  Edge(3, 3, 4, 80, FALSE), Edge(4, 4, 1, 110, FALSE),
                  Edge(5, 1, 5, 70, FALSE), Edge(6, 5, 3, 70, FALSE) >>)

\* one-way cycle 1 -> 2 -> 3 -> 1 with a two-way pendant 1-4
OneWayGraph ==
    BuildGraph(<< Node(1, 0, 0, FALSE), Node(2, 0, 8, FALSE),
                  Node(3, 8, 0, TRUE), Node(4, 0, -8, FALSE) >>,
               << Edge(1, 1, 2, 80, TRUE), Edge(2, 2, 3, 110, TRUE),
                  Edge(3, 3, 1, 80, TRUE), Edge(4, 1, 4, 30, FALSE) >>)

\* the line 1-2-3-4: no cycle
LineGraph ==
    BuildGraph(<< Node(1, 0, 0, FALSE), Node(2, 0, 8, FALSE),
                  Node(3, 0, 16, TRUE), Node(4, 0, 24, FALSE) >>,
               << Edge(1, 1, 2, 80, FALSE), Edge(2, 2, 3, 80, FALSE),
                  Edge(3, 3, 4, 80, FALSE) >>)

\* the two-way triangle 2-3-4 with the dead end 1 attached to node 2
LollipopGraph ==
    BuildGraph(<< Node(1, 0, 0, FALSE), Node(2, 0, 8, FALSE),
                  Node(3, 8, 8, TRUE), Node(4, 8, 0, FALSE) >>,
               << Edge(1, 1, 2, 80, FALSE), Edge(2, 2, 3, 80, FALSE),
                  Edge(3, 3, 4, 80, FALSE), Edge(4, 4, 2, 113, FALSE) >>)

Graphs == {TriangleGraph, SquareGraph, OneWayGraph, LineGraph, LollipopGraph}

\* start node ids tried: nodes of the graphs and the id 7 no graph holds
StartIds == {1, 2, 3, 7}

\* the square 0,0 - 0,8 - 8,8 - 8,0 closed, and a two-point diagonal whose
\* first segment is degenerate
SquareCurve ==
    << Coordinate(0, 0), Coordinate(0, 8), Coordinate(8, 8), Coordinate(8, 0),
       Coordinate(0, 0) >>

DiagonalCurve == << Coordinate(0, 0), Coordinate(0, 0), Coordinate(8, 8) >>

Curves == {SquareCurve, DiagonalCurve}

\* WeightSampler.get_corner_weights, in percent
get_corner_weights ==
    << <<80, 10, 10>>, <<10, 80, 10>>, <<10, 10, 80>>, <<34, 33, 33>> >>

\* (target distance in 10 m, max crossings): valid and rejected pairs
TargetPairs == { <<380, 0>>, <<150, 1>>, <<0, 0>>, <<380, -1>> }

IterationBudgets == {0, 2, MaxIterations}

IdleFinder == [pc |-> "idle"]

IdlePareto == [op |-> "idle"]

IdleRoutes == [pc |-> "idle"]

IdleCost == [op |-> "idle"]

IdleValue == [op |-> "idle"]

IdleCache == [op |-> "idle"]

(***************************************************************************)
(* Specification of one AStarPathFinder object                             *)
(***************************************************************************)
InitAStar ==
    /\ graph \in Graphs
    /\ finder = IdleFinder
    /\ pareto = IdlePareto
    /\ routes = IdleRoutes
    /\ cost = IdleCost
    /\ value = IdleValue
    /\ cache = IdleCache
    /\ calls = <<>>

\* pathfinder = AStarPathFinder(graph, target_curve, L, K, weights)
Construct ==
    /\ finder.pc = "idle"
    /\ \E curve \in Curves, lk \in TargetPairs, i \in DOMAIN get_corner_weights :
          finder' = AStarPathFinder(curve, lk[1], lk[2], get_corner_weights[i])
    /\ UNCHANGED <<graph, pareto, routes, cost, value, cache, calls>>

\* pathfinder.find_path(start_node_id, max_iterations), up to the loop
FindPathCall ==
    /\ finder.pc = "new"
    /\ \E start \in StartIds, mi \in IterationBudgets :
          /\ finder' = find_path_enter(graph, finder, start, mi)
          /\ graph' = after_lookups(graph, {start}, {})
    /\ UNCHANGED <<pareto, routes, cost, value, cache, calls>>

\* what one iteration did with the entry it popped: whether the entry was
\* recorded in visited, how many entries the iteration pushed, and best_cost
\* after it
PopRecord(fs, after) ==
    LET current == heappop(fs.open_set)[1]
    IN  [op |-> "pop", priority |-> current.priority,
         node_id |-> current.node_id, path |-> current.path,
         g_cost |-> current.g_cost, path_length |-> current.path_length,
         expanded |-> after.visited # fs.visited,
         pushed |-> Len(after.open_set) - (Len(fs.open_set) - 1),
         best_cost |-> after.best_cost]

\* one iteration of the search loop; calls logs the iterations of the search
FindPathIterate ==
    /\ finder.pc = "loop"
    /\ LoopContinues(finder)
    /\ finder' = find_path_iteration(graph, finder)
    /\ calls' = Append(calls, PopRecord(finder, finder'))
    /\ graph' = after_lookups(graph, iteration_node_reads(graph, finder),
                              iteration_neighbor_reads(graph, finder))
    /\ UNCHANGED <<pareto, routes, cost, value, cache>>

\* the loop ends: return best_candidate
FindPathReturn ==
    /\ finder.pc = "loop"
    /\ ~LoopContinues(finder)
    /\ finder' = find_path_return(finder)
    /\ UNCHANGED <<graph, pareto, routes, cost, value, cache, calls>>

NextAStar == Construct \/ FindPathCall \/ FindPathIterate \/ FindPathReturn

SpecAStar == InitAStar /\ [][NextAStar]_vars

(***************************************************************************)
(* Claims about find_path                                                  *)
(***************************************************************************)
Returned == finder.pc = "done" /\ finder.result # <<>>

ReturnedPath == finder.result[1].path

Occurrences(path, x) == Cardinality({i \in DOMAIN path : path[i] = x})

\* C1: every PathCandidate returned by find_path(start) is a closed walk:
\* its first and its last node id equal start and it has at least four entries.
C1_ReturnedIsClosedWalk ==
    Returned =>
        /\ Len(ReturnedPath) >= 4
        /\ ReturnedPath[1] = finder.start_node_id
        /\ Last(ReturnedPath) = finder.start_node_id

\* a search on the one-way cycle has returned a candidate
C1_Witness == Returned /\ graph = OneWayGraph

\* C2: in a returned candidate no node id other than start occurs more than
\* once, and start occurs exactly twice, at the first and the last position;
\* the graphs include one-way edges, parallel edges and self-loops.
C2_OnlyStartRepeats ==
    Returned =>
        /\ \A x \in Range(ReturnedPath) \ {finder.start_node_id} :
              Occurrences(ReturnedPath, x) = 1
        /\ {i \in DOMAIN ReturnedPath : ReturnedPath[i] = finder.start_node_id}
              = {1, Len(ReturnedPath)}

\* a candidate was returned on the graph with self-loops and parallel edges,
\* from a start node that carries a self-loop
C2_Witness ==
    /\ Returned
    /\ graph = TriangleGraph
    /\ finder.start_node_id \in get_neighbors(graph, finder.start_node_id)

\* the entry is a closed walk: it ends at start and has four or more entries
ClosedWalk(path) == Len(path) >= 4 /\ Last(path) = finder.start_node_id

\* the weighted sum recomputed by the cost kernel on the walk
ExactCost(path) ==
    calculate(finder.target_curve, finder.target_distance,
              finder.max_crossings, finder.weights, path, graph).total_cost

\* closed walks the search generated and left in the open set
ClosuresLeft ==
    {i \in DOMAIN finder.open_set : ClosedWalk(finder.open_set[i].path)}

\* C21: find_path returns the closed walk of lowest exact total cost among
\* all closed walks generated during the search, also when the iteration
\* budget ends the search, and null only if no closed walk was generated:
\* no closed walk still in the open set at the return is cheaper than the
\* result, and none is there when the result is null.
C21_ReturnsCheapestGenerated ==
    (finder.pc = "done" /\ HasNode(graph, finder.start_node_id)) =>
        IF finder.result = <<>> THEN ClosuresLeft = {}
        ELSE \A i \in ClosuresLeft :
                 finder.result[1].f_cost <= ExactCost(finder.open_set[i].path)

\* C22: start may reappear in a path prefix only as a closure: no entry in
\* the open set has start at a position after the first unless that position
\* is the last one and the entry has at least four entries.
C22_StartReappearsOnlyAsClosure ==
    finder.pc \in {"loop", "done"} =>
        \A e \in DOMAIN finder.open_set :
            \A i \in 2..Len(finder.open_set[e].path) :
                finder.open_set[e].path[i] = finder.start_node_id =>
                    /\ i = Len(finder.open_set[e].path)
                    /\ Len(finder.open_set[e].path) >= 4

\* the visited key of a logged entry: node id and floor(realized_km * 10)
KeyOf(c) == <<c.node_id, c.path_length \div 10>>

\* an entry with the same key was expanded before position n of the log
\* with a g-cost lower than or equal to that of the entry at n
ExpandedBefore(n) ==
    \E m \in 1..(n - 1) :
        /\ calls[m].expanded
        /\ KeyOf(calls[m]) = KeyOf(calls[n])
        /\ calls[m].g_cost <= calls[n].g_cost

\* C23: a popped entry that is not a closure is expanded unless an entry with
\* the same key (node id, floor(realized_km * 10)) was expanded earlier with
\* a lower or equal g-cost, in which case it is skipped and generates no
\* successors; a closure is evaluated whatever the visited set holds.
C23_SkippedIffExpandedBefore ==
    \A n \in DOMAIN calls :
        IF ClosedWalk(calls[n].path)
        THEN /\ ~calls[n].expanded
             /\ calls[n].pushed = 0
             /\ ~NumLess(Fin(ExactCost(calls[n].path)), calls[n].best_cost)
        ELSE /\ calls[n].expanded <=> ~ExpandedBefore(n)
             /\ ~calls[n].expanded => calls[n].pushed = 0

\* a search skipped an entry, expanded another entry at the same node in a
\* different length bucket, and evaluated a closure
C23_Witness ==
    /\ \E n \in DOMAIN calls : ~ClosedWalk(calls[n].path) /\ ~calls[n].expanded
    /\ \E m, n \in DOMAIN calls :
          /\ m < n
          /\ calls[m].expanded
          /\ calls[n].expanded
          /\ calls[m].node_id = calls[n].node_id
          /\ calls[m].g_cost <= calls[n].g_cost
    /\ \E n \in DOMAIN calls : ClosedWalk(calls[n].path)

\* position in the log of the iteration that pushed the logged entry c (the
\* one that popped its path without the last node); 0 for the start entry
PushedAt(c) ==
    IF Len(c.path) = 1 THEN 0
    ELSE CHOOSE k \in DOMAIN calls :
             calls[k].path = SubSeq(c.path, 1, Len(c.path) - 1)

\* entry a was pushed before entry b: by an earlier iteration, or by the same
\* iteration for a neighbour the loop takes first
PushedBefore(a, b) ==
    \/ PushedAt(a) < PushedAt(b)
    \/ PushedAt(a) = PushedAt(b) /\ Last(a.path) < Last(b.path)

\* C24: open-set entries are expanded in the order (f-cost, insertion order):
\* of two entries that were in the open set together the one popped first
\* has the lower f-cost, or the same f-cost and was pushed earlier.
C24_PoppedByCostThenInsertion ==
    \A m, n \in DOMAIN calls :
        (m < n /\ PushedAt(calls[n]) < m) =>
            \/ calls[m].priority < calls[n].priority
            \/ /\ calls[m].priority = calls[n].priority
               /\ PushedBefore(calls[m], calls[n])

\* a prefix holds every node other than start at most once and start at most
\* twice, so it has at most |V| + 1 entries
BoundedPrefix(path) ==
    /\ \A x \in Range(path) :
           Occurrences(path, x) <= (IF x = finder.start_node_id THEN 2 ELSE 1)
    /\ Len(path) <= Len(graph.nodes) + 1

\* C25: find_path terminates: the loop pops one entry per iteration and at
\* most max_iterations of them; no prefix is popped twice, and every pushed
\* prefix holds each node other than start at most once and start at most
\* twice (at most |V| + 1 entries), so the open set empties.
C25_FindPathTerminates ==
    finder.pc \in {"loop", "done"} =>
        /\ Len(calls) = finder.iterations
        /\ finder.iterations <= finder.max_iterations
        /\ \A i \in DOMAIN finder.open_set : BoundedPrefix(finder.open_set[i].path)
        /\ \A n \in DOMAIN calls : BoundedPrefix(calls[n].path)
        /\ \A m, n \in DOMAIN calls : m # n => calls[m].path # calls[n].path
        /\ \A i \in DOMAIN finder.open_set : \A n \in DOMAIN calls : finder.open_set[i].path # calls[n].path

\* a search that returned because the open set emptied, within its budget,
\* after popping a prefix of |V| + 1 entries
C25_Witness ==
    /\ finder.pc = "done"
    /\ finder.open_set = <<>>
    /\ finder.iterations < finder.max_iterations
    /\ \E n \in DOMAIN calls : Len(calls[n].path) = Len(graph.nodes) + 1

\* find_path returned for a start node with fewer than two neighbours
DeadEndStart ==
    /\ finder.pc = "done"
    /\ Cardinality(get_neighbors(graph, finder.start_node_id)) < 2

TwoWayGraph == \A i \in DOMAIN graph.edges : ~graph.edges[i].is_oneway

MaxCandidates == 4

MaxK == 3

\* objective triples (shape, length, crossing) the input candidates carry:
\* three mutually non-dominated points with equal crossing, a point that
\* dominates the middle one, a point that is best in two objectives and
\* worst in the third, and a point every other one dominates
ObjectivePool ==
    { <<0, 2, 1>>, <<1, 1, 1>>, <<2, 0, 1>>, <<1, 1, 0>>, <<0, 0, 2>>,
      <<2, 2, 2>> }

\* the PathCandidate list built from a list of triples; id stands for the
\* identity of the Python object (its position in the input)
MakeCandidates(objs) ==
    [i \in DOMAIN objs |->
        [id |-> i, path |-> <<1, i + 1, 1>>, shape_distance |-> objs[i][1],
         length_penalty |-> objs[i][2], crossing_penalty |-> objs[i][3]]]

CandidateLists ==
    UNION { {MakeCandidates(objs) : objs \in [1..n -> ObjectivePool]} :
               n \in 0..MaxCandidates }

\* seven triples with the same sum: no one dominates another
FrontPool ==
    { <<0, 4, 2>>, <<4, 0, 2>>, <<3, 3, 0>>, <<1, 1, 4>>, <<2, 2, 2>>,
      <<1, 3, 2>>, <<3, 1, 2>> }

\* five different members of the pool in any order
FrontLists ==
    {MakeCandidates(objs) :
        objs \in {o \in [1..5 -> FrontPool] :
                     \A i, j \in 1..5 : i # j => o[i] # o[j]}}

InitPareto ==
    /\ graph = EmptyGraph
    /\ finder = IdleFinder
    /\ pareto = IdlePareto
    /\ routes = IdleRoutes
    /\ cost = IdleCost
    /\ value = IdleValue
    /\ cache = IdleCache
    /\ calls = <<>>

\* pf.filter_non_dominated(candidates)
FilterNonDominated ==
    /\ pareto.op = "idle"
    /\ \E cands \in CandidateLists :
          pareto' = [op |-> "filter_non_dominated", candidates |-> cands,
                     k |-> 0, result |-> filter_non_dominated(cands)]
    /\ UNCHANGED <<graph, finder, routes, cost, value, cache, calls>>

\* pf.calculate_crowding_distance([from_path_candidate(c) for c in candidates])
CalculateCrowdingDistance ==
    /\ pareto.op = "idle"
    /\ \E cands \in CandidateLists :
          pareto' = [op |-> "calculate_crowding_distance",
                     candidates |-> cands, k |-> 0,
                     result |-> calculate_crowding_distance(
                        [i \in DOMAIN cands |-> from_path_candidate(cands[i])])]
    /\ UNCHANGED <<graph, finder, routes, cost, value, cache, calls>>

\* pf.select_top_k(candidates, k)
SelectTopK ==
    /\ pareto.op = "idle"
    /\ \E cands \in CandidateLists, k \in 0..MaxK :
          pareto' = [op |-> "select_top_k", candidates |-> cands, k |-> k,
                     result |-> select_top_k(cands, k)]
    /\ UNCHANGED <<graph, finder, routes, cost, value, cache, calls>>

\* pf.select_top_k(candidates, k=3) on five mutually non-dominated candidates
SelectTopThreeOfFive ==
    /\ pareto.op = "idle"
    /\ \E cands \in FrontLists :
          pareto' = [op |-> "select_top_k", candidates |-> cands, k |-> 3,
                     result |-> select_top_k(cands, 3)]
    /\ UNCHANGED <<graph, finder, routes, cost, value, cache, calls>>

\* pf.get_pareto_ranks(candidates), up to the while loop
GetParetoRanksCall ==
    /\ pareto.op = "idle"
    /\ \E cands \in CandidateLists : pareto' = get_pareto_ranks_enter(cands)
    /\ UNCHANGED <<graph, finder, routes, cost, value, cache, calls>>

\* one iteration of the while loop of get_pareto_ranks
GetParetoRanksLayer ==
    /\ pareto.op = "get_pareto_ranks"
    /\ pareto.pc = "loop"
    /\ pareto.remaining # <<>>
    /\ pareto' = get_pareto_ranks_layer(pareto)
    /\ UNCHANGED <<graph, finder, routes, cost, value, cache, calls>>

\* the while loop of get_pareto_ranks ends and the list is returned
GetParetoRanksReturn ==
    /\ pareto.op = "get_pareto_ranks"
    /\ pareto.pc = "loop"
    /\ pareto.remaining = <<>>
    /\ pareto' = get_pareto_ranks_return(pareto)
    /\ UNCHANGED <<graph, finder, routes, cost, value, cache, calls>>

NextPareto ==
    \/ FilterNonDominated
    \/ CalculateCrowdingDistance
    \/ SelectTopK
    \/ SelectTopThreeOfFive
    \/ GetParetoRanksCall
    \/ GetParetoRanksLayer
    \/ GetParetoRanksReturn

SpecPareto == InitPareto /\ [][NextPareto]_vars

(***************************************************************************)
(* Claims about the Pareto filter                                          *)
(***************************************************************************)
\* a dominates b: a <= b in all three objectives and a < b in at least one
DominatesDef(a, b) ==
    /\ a.shape_distance <= b.shape_distance
    /\ a.length_penalty <= b.length_penalty
    /\ a.crossing_penalty <= b.crossing_penalty
    /\ \/ a.shape_distance < b.shape_distance
       \/ a.length_penalty < b.length_penalty
       \/ a.crossing_penalty < b.crossing_penalty

\* positions of the input candidates that no other input candidate dominates
FrontIds(cands) ==
    {i \in DOMAIN cands :
        ~\E j \in DOMAIN cands : j # i /\ DominatesDef(cands[j], cands[i])}

\* C3: every candidate returned by select_top_k is a member of the Pareto
\* front of the input candidates (no input candidate dominates it), for every
\* input list and every k.
C3_SelectedAreNonDominated ==
    pareto.op = "select_top_k" =>
        \A i \in DOMAIN pareto.result :
            pareto.result[i].id \in FrontIds(pareto.candidates)

\* C4: select_top_k(candidates, k) never returns more than k candidates.
C4_AtMostK ==
    pareto.op = "select_top_k" => Len(pareto.result) <= pareto.k

\* more candidates than k were handed in and the front is larger than k too
C4_Witness ==
    /\ pareto.op = "select_top_k"
    /\ Cardinality(FrontIds(pareto.candidates)) > pareto.k
    /\ pareto.k >= 1
    /\ Len(pareto.result) = pareto.k

\* C8: filter_non_dominated returns exactly the input candidates that no
\* other input candidate dominates (in input order); candidates with equal
\* objective triples never eliminate each other, and a non-empty input gives
\* a non-empty front.
C8_FilterIsExactlyTheFront ==
    pareto.op = "filter_non_dominated" =>
        LET ids == [i \in DOMAIN pareto.result |->
                        pareto.result[i].path_candidate.id]
        IN  /\ ids = SortedSeq(FrontIds(pareto.candidates))
            /\ \A i \in DOMAIN pareto.result :
                  pareto.result[i].objectives
                     = Objectives(pareto.candidates[ids[i]])
            /\ \A i, j \in DOMAIN pareto.candidates :
                  Objectives(pareto.candidates[i])
                     = Objectives(pareto.candidates[j])
                  => (Contains(ids, i) <=> Contains(ids, j))
            /\ (pareto.candidates # <<>> => pareto.result # <<>>)

\* the input holds two candidates with equal triples that both survive and a
\* candidate that is dominated and dropped
C8_Witness ==
    /\ pareto.op = "filter_non_dominated"
    /\ \E i, j \in DOMAIN pareto.candidates :
          /\ i # j
          /\ Objectives(pareto.candidates[i]) = Objectives(pareto.candidates[j])
          /\ \E a, b \in DOMAIN pareto.result :
                /\ pareto.result[a].path_candidate.id = i
                /\ pareto.result[b].path_candidate.id = j
    /\ Len(pareto.result) < Len(pareto.candidates)

\* the front of the input with the crowding distances select_top_k sorts by
CrowdedFront(cands) == calculate_crowding_distance(filter_non_dominated(cands))

\* x is ranked before y: larger crowding distance, or the same crowding
\* distance and earlier in the input
RankedBefore(x, y) ==
    \/ CrowdGreater(x.crowding_distance, y.crowding_distance)
    \/ /\ CrowdEqual(x.crowding_distance, y.crowding_distance)
       /\ x.path_candidate.id < y.path_candidate.id

\* C9: when the Pareto front has more than k members, select_top_k returns
\* exactly k of them in descending order of crowding distance, and of two
\* front members with the same crowding distance the one earlier in the input
\* is placed first and selected first.
C9_TopKByCrowdingThenInputOrder ==
    (pareto.op = "select_top_k"
       /\ Cardinality(FrontIds(pareto.candidates)) > pareto.k) =>
        LET front == CrowdedFront(pareto.candidates)
            res == pareto.result
            At(id) == CHOOSE f \in Range(front) : f.path_candidate.id = id
            chosen == {res[i].id : i \in DOMAIN res}
        IN  /\ Len(res) = pareto.k
            /\ Cardinality(chosen) = pareto.k
            /\ chosen \subseteq FrontIds(pareto.candidates)
            /\ \A i \in DOMAIN res : res[i] = pareto.candidates[res[i].id]
            /\ \A i \in 1..(Len(res) - 1) :
                  RankedBefore(At(res[i].id), At(res[i + 1].id))
            /\ \A f \in Range(front) :
                  f.path_candidate.id \notin chosen =>
                     \A id \in chosen : RankedBefore(At(id), f)

\* the result goes from an infinite to a finite crowding distance, and its
\* last member ties with a later front member that is left out
C9_Witness ==
    /\ pareto.op = "select_top_k"
    /\ Cardinality(FrontIds(pareto.candidates)) > pareto.k
    /\ pareto.k >= 2
    /\ LET front == CrowdedFront(pareto.candidates)
           res == pareto.result
           chosen == {res[i].id : i \in DOMAIN res}
       IN  /\ Len(res) = pareto.k
           /\ \E f, g, h \in Range(front) :
                 /\ f.path_candidate.id \in chosen
                 /\ g.path_candidate.id \in chosen
                 /\ h.path_candidate.id \notin chosen
                 /\ CrowdGreater(f.crowding_distance, g.crowding_distance)
                 /\ CrowdEqual(g.crowding_distance, h.crowding_distance)
                 /\ g.path_candidate.id < h.path_candidate.id

\* the two ends of objective m's sort order: the sort is ascending and keeps
\* equal values in list order, so the first is the earliest candidate with
\* the smallest value and the last the latest candidate with the largest
FirstEnd(cands, m) ==
    CHOOSE i \in DOMAIN cands :
        \A j \in DOMAIN cands :
            \/ Objectives(cands[i])[m] < Objectives(cands[j])[m]
            \/ Objectives(cands[i])[m] = Objectives(cands[j])[m] /\ i <= j

LastEnd(cands, m) ==
    CHOOSE i \in DOMAIN cands :
        \A j \in DOMAIN cands :
            \/ Objectives(cands[i])[m] > Objectives(cands[j])[m]
            \/ Objectives(cands[i])[m] = Objectives(cands[j])[m] /\ i >= j

EndIds(cands) ==
    UNION { {FirstEnd(cands, m), LastEnd(cands, m)} : m \in 1..3 }

\* C10: calculate_crowding_distance gives +inf to every candidate when there
\* are at most 2; with 3 or more, in each of the three objectives exactly the
\* two candidates at the ends of the sort order get +inf, +inf is never
\* replaced by a finite value, and a candidate that is an end in no objective
\* has a finite crowding distance.
C10_CrowdingInfinityAtEnds ==
    pareto.op = "calculate_crowding_distance" =>
        LET cands == pareto.candidates
            res == pareto.result
        IN  /\ Len(res) = Len(cands)
            /\ \A i \in DOMAIN res : res[i].path_candidate = cands[i]
            /\ Len(cands) <= 2 =>
                  \A i \in DOMAIN res : res[i].crowding_distance.inf
            /\ Len(cands) >= 3 =>
                  /\ \A m \in 1..3 : FirstEnd(cands, m) # LastEnd(cands, m)
                  /\ \A i \in DOMAIN res :
                        res[i].crowding_distance.inf <=> i \in EndIds(cands)
                  /\ \A i \in DOMAIN res :
                        ~res[i].crowding_distance.inf =>
                           /\ res[i].crowding_distance.n >= 0
                           /\ res[i].crowding_distance.d > 0

\* three or more candidates, one of them an end in an earlier objective and
\* an interior point of a later objective whose range is not zero, and one of
\* them with a finite distance above zero
C10_Witness ==
    /\ pareto.op = "calculate_crowding_distance"
    /\ Len(pareto.candidates) >= 3
    /\ LET cands == pareto.candidates
           res == pareto.result
       IN  /\ \E i \in DOMAIN cands, m1, m2 \in 1..3 :
                 /\ m1 < m2
                 /\ i \in {FirstEnd(cands, m1), LastEnd(cands, m1)}
                 /\ i \notin {FirstEnd(cands, m2), LastEnd(cands, m2)}
                 /\ Objectives(cands[FirstEnd(cands, m2)])[m2]
                      # Objectives(cands[LastEnd(cands, m2)])[m2]
                 /\ Objectives(cands[i])[m2]
                      # Objectives(cands[FirstEnd(cands, m2)])[m2]
                 /\ res[i].crowding_distance.inf
           /\ \E i \in DOMAIN res :
                 /\ ~res[i].crowding_distance.inf
                 /\ res[i].crowding_distance.n > 0

\* five candidates, none dominated, and k = 3
FiveOnTheFront ==
    /\ pareto.op = "select_top_k"
    /\ pareto.k = 3
    /\ Len(pareto.candidates) = 5
    /\ FrontIds(pareto.candidates) = 1..5

\* ids of the front members whose crowding distance is +inf
InfiniteIds(cands) ==
    LET front == CrowdedFront(cands)
    IN  {front[i].path_candidate.id :
            i \in {j \in DOMAIN front : front[j].crowding_distance.inf}}

ChosenIds == {pareto.result[i].id : i \in DOMAIN pareto.result}

\* C11 as stated: of five mutually non-dominated candidates select_top_k(k=3)
\* returns exactly 3 distinct candidates, and every candidate whose crowding
\* distance is +inf is among the 3 returned.
C11_AllInfiniteAreReturned ==
    FiveOnTheFront =>
        /\ Len(pareto.result) = 3
        /\ Cardinality(ChosenIds) = 3
        /\ InfiniteIds(pareto.candidates) \subseteq ChosenIds

\* C11 amended: of five mutually non-dominated candidates select_top_k(k=3)
\* returns exactly 3 distinct candidates; when at most 3 candidates have a
\* crowding distance of +inf all of them are returned, and when more than 3
\* have it every returned candidate is one of them.
C11_InfiniteFirst ==
    FiveOnTheFront =>
        LET infinite == InfiniteIds(pareto.candidates)
        IN  /\ Len(pareto.result) = 3
            /\ Cardinality(ChosenIds) = 3
            /\ Cardinality(infinite) <= 3 => infinite \subseteq ChosenIds
            /\ Cardinality(infinite) > 3 => ChosenIds \subseteq infinite

\* exactly two candidates are +inf and both are returned with a finite third
C11_Witness ==
    /\ FiveOnTheFront
    /\ Cardinality(InfiniteIds(pareto.candidates)) = 2
    /\ InfiniteIds(pareto.candidates) \subseteq ChosenIds
    /\ Len(pareto.result) = 3

\* positions of S that no other position of S dominates
FrontWithin(cands, S) ==
    {i \in S : ~\E j \in S : j # i /\ DominatesDef(cands[j], cands[i])}

\* positions whose rank in the returned list is r or more: what is left
\* after the candidates of every rank below r are removed
LeftAt(ranked, r) == {i \in DOMAIN ranked : ranked[i].rank >= r}

\* C18: get_pareto_ranks terminates (every iteration of its loop removes a
\* candidate, so the rank counter plus the number of candidates left never
\* exceeds the input length) and returns one annotated entry per input
\* candidate in input order; a candidate has rank r exactly when it is left
\* after the ranks below r are removed and is non-dominated among those left.
C18_RanksAreTheFrontLayers ==
    pareto.op = "get_pareto_ranks" =>
        /\ pareto.pc = "loop" =>
              pareto.current_rank + Len(pareto.remaining)
                  <= Len(pareto.candidates)
        /\ pareto.pc = "done" =>
              /\ Len(pareto.result) = Len(pareto.candidates)
              /\ \A i \in DOMAIN pareto.result :
                    /\ pareto.result[i].path_candidate = pareto.candidates[i]
                    /\ \A r \in 0..Len(pareto.candidates) :
                          pareto.result[i].rank = r <=>
                              i \in FrontWithin(pareto.candidates,
                                                LeftAt(pareto.result, r))

\* four candidates were ranked in three layers: ranks 0, 1 and 2 all occur
C18_Witness ==
    /\ pareto.op = "get_pareto_ranks"
    /\ pareto.pc = "done"
    /\ Len(pareto.result) = 4
    /\ {pareto.result[i].rank : i \in DOMAIN pareto.result} = {0, 1, 2}

(***************************************************************************)
(* Route finder (algorithm/route_finder.py, algorithm/weight_sampler.py,   *)
(* shape/transformer.py).  An Optional value is <<>> or <<value>>.         *)
(***************************************************************************)
\* values a Dir(1, 1, 1) draw of the generator can take (percent); the
\* generator of RouteFinder is built without a seed
DirichletSupport == { <<60, 30, 10>>, <<20, 20, 60>> }

\* WeightSampler.sample: raises ValueError for n_samples <= 0, else one draw
\* of the generator per sample
sample_raises(n_samples) == n_samples <= 0

DrawLists(n_samples) ==
    IF n_samples <= 0 THEN {<<>>} ELSE [1..n_samples -> DirichletSupport]

\* WeightSampler.sample_with_corners: corners + additional
sample_with_corners(draws) == get_corner_weights \o draws

\* (cos, sin) of 0, 60, ..., 300 degrees in thousandths
RotationAngles ==
    << <<1000, 0>>, <<500, 866>>, <<-500, 866>>, <<-1000, 0>>,
       <<-500, -866>>, <<500, -866>> >>

\* a / b rounded to the nearest integer (b > 0)
RoundDiv(a, b) == (2 * a + b) \div (2 * b)

\* ShapeTransformer.rotate about (0, 0); the result is the code's times 1000
rotate(points, angle) ==
    [i \in DOMAIN points |->
        << points[i][1] * angle[1] - points[i][2] * angle[2],
           points[i][1] * angle[2] + points[i][2] * angle[1] >>]

\* RouteFinder._generate_rotated_curves: centre, normalise, rotate by the
\* first n_rotations angles, move back.  normalized holds the code's values
\* times the number of points; a rotated coordinate is rounded to the grid.
generate_rotated_curves(target_curve, n_rotations) ==
    LET n == Len(target_curve)
        sum_lat == SumSeq([i \in DOMAIN target_curve |-> target_curve[i].lat])
        sum_lng == SumSeq([i \in DOMAIN target_curve |-> target_curve[i].lng])
        normalized == [i \in DOMAIN target_curve |->
                          << n * target_curve[i].lng - sum_lng,
                             n * target_curve[i].lat - sum_lat >>]
        angles == Take(RotationAngles, n_rotations)
        geo_coords(rotated) ==
            [i \in DOMAIN rotated |->
                Coordinate(RoundDiv(1000 * sum_lat + rotated[i][2], 1000 * n),
                           RoundDiv(1000 * sum_lng + rotated[i][1], 1000 * n))]
    IN  [a \in DOMAIN angles |-> geo_coords(rotate(normalized, angles[a]))]

\* RoadGraph.find_nearest_node: the first node at the smallest distance
find_nearest_node(g, lat, lng) ==
    IF g.nodes = <<>> THEN <<>>
    ELSE LET dist(i) == haversine(lat, lng, g.nodes[i].lat, g.nodes[i].lng)
             best == CHOOSE i \in DOMAIN g.nodes :
                        \A j \in DOMAIN g.nodes :
                            dist(i) < dist(j) \/ (dist(i) = dist(j) /\ i <= j)
         IN  <<g.nodes[best]>>

\* every node passes the neighbour-count test
IsJunctionAny(g, node_id) == Cardinality(get_neighbors(g, node_id)) >= 0

\* "if neighbor_count < 2: continue": the nodes the loop goes on with
IsJunction(g, node_id) == Cardinality(get_neighbors(g, node_id)) >= 2

\* RouteFinder._find_start_node.  For the first node with two or more
\* neighbours the loop calls node.distance_to_coord, which Node does not
\* define: AttributeError.  Without such a node the nearest node is used.
find_start_node(g, target_curve) ==
    IF target_curve = <<>> THEN [raised |-> FALSE, value |-> <<>>]
    ELSE IF \E i \in DOMAIN g.nodes : IsJunction(g, g.nodes[i].id)
    THEN [raised |-> TRUE, value |-> <<>>]
    ELSE LET nearest == find_nearest_node(g, target_curve[1].lat,
                                          target_curve[1].lng)
         IN  [raised |-> FALSE,
              value |-> IF nearest = <<>> THEN <<>> ELSE <<nearest[1].id>>]

\* the node ids _find_start_node hands to get_neighbors: the nodes in table
\* order up to the first one with two or more neighbours
find_start_node_reads(g, target_curve) ==
    IF target_curve = <<>> THEN {}
    ELSE {g.nodes[i].id : i \in {k \in DOMAIN g.nodes :
             \A j \in 1..(k - 1) : ~IsJunction(g, g.nodes[j].id)}}

\* RouteFinder._search_single: build a finder (its constructor may raise
\* ValueError) and run find_path
search_single(g, target_curve, weight, L, K, start_node_id, max_iterations) ==
    LET pathfinder == AStarPathFinder(target_curve, L, K, weight)
    IN  IF pathfinder.pc = "raised"
        THEN [raised |-> TRUE, result |-> <<>>, node_reads |-> {},
              neighbor_reads |-> {}]
        ELSE LET returned == find_path(g, pathfinder, start_node_id,
                                       max_iterations)
             IN  [raised |-> FALSE, result |-> returned.result,
                  node_reads |-> find_path_node_reads(g, returned),
                  neighbor_reads |-> find_path_neighbor_reads(returned)]

\* the (curve, weight) pairs in the order of the nested loops
SweepPairs(rotated_curves, weights) ==
    [k \in 1..(Len(rotated_curves) * Len(weights)) |->
        << rotated_curves[((k - 1) \div Len(weights)) + 1],
           weights[((k - 1) % Len(weights)) + 1] >>]

\* "if candidate: candidates.append(candidate)" with the list replaced
collect_replace(candidates, outcome) ==
    IF outcome.result # <<>> THEN <<outcome.result[1]>> ELSE candidates

\* "if candidate: candidates.append(candidate)"
collect(candidates, outcome) ==
    IF outcome.result # <<>> THEN Append(candidates, outcome.result[1])
    ELSE candidates

\* RouteFinder._search_sequential: the pairs in order; an exception of a
\* search leaves the loop.  searches counts the find_path calls.
RECURSIVE search_sequential_loop(_, _, _, _, _, _, _)
search_sequential_loop(g, pairs, L, K, start_node_id, max_iterations, acc) ==
    IF pairs = <<>> THEN acc
    ELSE LET outcome == search_single(g, Head(pairs)[1], Head(pairs)[2], L, K,
                                      start_node_id, max_iterations)
         IN  IF outcome.raised THEN [acc EXCEPT !.raised = TRUE]
             ELSE search_sequential_loop(
                      g, Tail(pairs), L, K, start_node_id, max_iterations,
                      [acc EXCEPT !.candidates = collect(@, outcome),
                                  !.searches = @ + 1,
                                  !.node_reads = @ \cup outcome.node_reads,
                                  !.neighbor_reads =
                                      @ \cup outcome.neighbor_reads])

search_sequential(g, rotated_curves, weights, L, K, start_node_id, max_iterations) ==
    search_sequential_loop(g, SweepPairs(rotated_curves, weights), L, K,
                           start_node_id, max_iterations,
                           [raised |-> FALSE, candidates |-> <<>>,
                            searches |-> 0, node_reads |-> {},
                            neighbor_reads |-> {}])

\* RouteFinder._to_route_infos; shape_similarity = 1 / (1 + shape_distance)
\* as the fraction n / d (shape_distance is held times 3 L)
to_route_infos(g, candidates, L) ==
    [i \in DOMAIN candidates |->
        LET known == SelectSeq(candidates[i].path, LAMBDA id : HasNode(g, id))
        IN  [route_id |-> i,
             coordinates |-> [j \in DOMAIN known |->
                                 Coordinate(get_node(g, known[j]).lat,
                                            get_node(g, known[j]).lng)],
             total_distance_km |-> candidates[i].path_length,
             traffic_light_count |-> candidates[i].traffic_light_count,
             shape_similarity |->
                 [n |-> 3 * L, d |-> 3 * L + candidates[i].shape_distance]]]

\* RouteSearchConfig
RouteSearchConfig(n_weight_samples, n_rotations, max_iterations, max_results, use_parallel, max_workers) ==
    [n_weight_samples |-> n_weight_samples, n_rotations |-> n_rotations,
     max_iterations |-> max_iterations, max_results |-> max_results,
     use_parallel |-> use_parallel, max_workers |-> max_workers]

\* the futures of _search_parallel, one per pair, in submission order.  What
\* a future will hold is a function of the arguments it is submitted with
\* (a _search_single builds its own finder and only reads the graph), so it
\* is evaluated here and shows when the future is finished.
SubmitTasks(g, rotated_curves, weights, L, K, start_node_id, max_iterations) ==
    LET pairs == SweepPairs(rotated_curves, weights)
    IN  [k \in DOMAIN pairs |->
            [curve |-> pairs[k][1], weight |-> pairs[k][2],
             status |-> "queued",
             outcome |-> search_single(g, pairs[k][1], pairs[k][2], L, K,
                                       start_node_id, max_iterations)]]

\* find_routes from its entry to the start of the sweep (lines 88-128).
\* draws is what the sampler's generator yields in this call.
find_routes_enter(g, call, draws, run, first) ==
    LET base == [pc |-> "sweep", call |-> call, run |-> run, first |-> first,
                 start_node_id |-> 0, weights |-> <<>>,
                 rotated_curves |-> <<>>, tasks |-> <<>>, candidates |-> <<>>,
                 searches |-> 0, result |-> <<>>, error |-> "none"]
        found == find_start_node(g, call.target_curve)
        start == IF call.start_node_id # <<>> THEN call.start_node_id
                 ELSE found.value
        weights == sample_with_corners(draws)
        curves == generate_rotated_curves(call.target_curve,
                                          call.config.n_rotations)
    IN  IF Len(call.target_curve) < 2 THEN [base EXCEPT !.pc = "done"]
        ELSE IF call.start_node_id = <<>> /\ found.raised
        THEN [base EXCEPT !.pc = "raised", !.error = "AttributeError"]
        ELSE IF call.start_node_id = <<>> /\ (start = <<>> \/ start = <<0>>)
        THEN [base EXCEPT !.pc = "done"]
        ELSE IF sample_raises(call.config.n_weight_samples - 4)
        THEN [base EXCEPT !.pc = "raised", !.error = "ValueError",
                          !.start_node_id = start[1]]
        ELSE [base EXCEPT !.start_node_id = start[1], !.weights = weights,
                          !.rotated_curves = curves,
                          !.tasks = IF call.config.use_parallel
                                    THEN SubmitTasks(
                                             g, curves, weights,
                                             call.target_distance_km,
                                             call.max_crossings, start[1],
                                             call.config.max_iterations)
                                    ELSE <<>>]

\* select_top_k, _to_route_infos and the return; the locals are gone
find_routes_return(g, rs) ==
    [rs EXCEPT !.pc = "done", !.weights = <<>>, !.rotated_curves = <<>>,
               !.tasks = <<>>, !.candidates = <<>>,
               !.result = to_route_infos(
                              g, select_top_k(rs.candidates,
                                              rs.call.config.max_results),
                              rs.call.target_distance_km)]

\* the lookups of find_routes before the sweep: _find_start_node when no
\* start node id is given
find_routes_enter_reads(g, call) ==
    IF Len(call.target_curve) < 2 \/ call.start_node_id # <<>> THEN {}
    ELSE find_start_node_reads(g, call.target_curve)

\* the node ids _to_route_infos hands to get_node: the nodes of the
\* selected candidates
find_routes_return_reads(rs) ==
    LET top == select_top_k(rs.candidates, rs.call.config.max_results)
    IN  UNION {Range(top[i].path) : i \in DOMAIN top}

\* what a caller of find_routes sees
Outcome(rs) == [pc |-> rs.pc, result |-> rs.result, error |-> rs.error]

(***************************************************************************)
(* Specification of RouteFinder.find_routes: a call, and a second call     *)
(* with the same arguments on the same RouteFinder                         *)
(***************************************************************************)
\* most worker threads a configuration asks for
MaxWorkers == 2

\* a single two-way edge: no node has two neighbours
PairGraph ==
    BuildGraph(<< Node(1, 0, 0, FALSE), Node(2, 0, 8, FALSE) >>,
               << Edge(1, 1, 2, 80, FALSE) >>)

\* two triangles that share node 1: 1-2-3 along the square curve, and the
\* shorter 1-4-5 with the signalised node 4
BowtieGraph ==
    BuildGraph(<< Node(1, 0, 0, FALSE), Node(2, 0, 8, FALSE),
                  Node(3, 8, 8, FALSE), Node(4, 4, 0, TRUE),
                  Node(5, 4, 4, FALSE) >>,
               << Edge(1, 1, 2, 80, FALSE), Edge(2, 2, 3, 80, FALSE),
                  Edge(3, 3, 1, 113, FALSE), Edge(4, 1, 4, 40, FALSE),
                  Edge(5, 4, 5, 40, FALSE), Edge(6, 5, 1, 57, FALSE) >>)

\* a single node without edges
OneNodeGraph == BuildGraph(<< Node(1, 0, 0, FALSE) >>, << >>)

RouteGraphs == {BowtieGraph, PairGraph, EmptyGraph, OneNodeGraph, LineGraph}

PointCurve == << Coordinate(0, 0) >>

\* a curve of two points at the same place
CoincidentCurve == << Coordinate(0, 0), Coordinate(0, 0) >>

SequentialConfigs ==
    {RouteSearchConfig(n, r, MaxIterations, k, FALSE, 1) :
        n \in {4, 5}, r \in {0, 1, 2}, k \in {2, 5}}

ParallelConfigs ==
    {RouteSearchConfig(5, 1, MaxIterations, 2, TRUE, w) : w \in 1..MaxWorkers}

FindRoutesArgs(curve, lk, start, config) ==
    [target_curve |-> curve, target_distance_km |-> lk[1],
     max_crossings |-> lk[2], start_node_id |-> start, config |-> config]

\* the calls made: every combination without threads, and the threaded
\* sweep for the square curve from node 1
Calls ==
    {FindRoutesArgs(curve, lk, start, config) :
        curve \in {DiagonalCurve, SquareCurve, PointCurve, CoincidentCurve, <<>>},
        lk \in TargetPairs,
        start \in {<<>>, <<1>>}, config \in SequentialConfigs}
    \cup
    {FindRoutesArgs(SquareCurve, lk, <<1>>, config) :
        lk \in TargetPairs, config \in ParallelConfigs}

InitRoutes ==
    /\ graph \in RouteGraphs
    /\ finder = IdleFinder
    /\ pareto = IdlePareto
    /\ routes = IdleRoutes
    /\ cost = IdleCost
    /\ value = IdleValue
    /\ cache = IdleCache
    /\ calls = <<>>

\* finder.find_routes(target_curve, target_distance_km, max_crossings,
\* start_node_id) up to the sweep
FindRoutesCall ==
    /\ routes.pc = "idle"
    /\ \E call \in Calls :
          \E draws \in DrawLists(call.config.n_weight_samples - 4) :
             /\ routes' = find_routes_enter(graph, call, draws, 1, <<>>)
             /\ graph' = after_lookups(graph, {},
                                       find_routes_enter_reads(graph, call))
    /\ UNCHANGED <<finder, pareto, cost, value, cache, calls>>

\* the same call once more
FindRoutesAgain ==
    /\ routes.pc \in {"done", "raised"}
    /\ routes.run = 1
    /\ \E draws \in DrawLists(routes.call.config.n_weight_samples - 4) :
          routes' = find_routes_enter(graph, routes.call, draws, 2,
                                      <<Outcome(routes)>>)
    /\ graph' = after_lookups(graph, {},
                              find_routes_enter_reads(graph, routes.call))
    /\ UNCHANGED <<finder, pareto, cost, value, cache, calls>>

\* all_candidates = self._search_sequential(...)
SearchSequential ==
    /\ routes.pc = "sweep"
    /\ ~routes.call.config.use_parallel
    /\ \E swept \in {search_sequential(
                        graph, routes.rotated_curves, routes.weights,
                        routes.call.target_distance_km,
                        routes.call.max_crossings, routes.start_node_id,
                        routes.call.config.max_iterations)} :
           /\ routes' = IF swept.raised
                        THEN [routes EXCEPT !.pc = "raised",
                                            !.error = "ValueError",
                                            !.weights = <<>>,
                                            !.rotated_curves = <<>>,
                                            !.searches = swept.searches]
                        ELSE [routes EXCEPT !.pc = "select",
                                            !.candidates = swept.candidates,
                                            !.searches = swept.searches]
           /\ graph' = after_lookups(graph, swept.node_reads,
                                     swept.neighbor_reads)
    /\ UNCHANGED <<finder, pareto, cost, value, cache, calls>>

Running(tasks) == {i \in DOMAIN tasks : tasks[i].status = "running"}

\* a free worker thread takes the oldest queued future and runs its
\* _search_single; searches counts the find_path calls
WorkerStart ==
    /\ routes.pc = "sweep"
    /\ routes.call.config.use_parallel
    /\ Cardinality(Running(routes.tasks)) < routes.call.config.max_workers
    /\ \E i \in DOMAIN routes.tasks :
          /\ routes.tasks[i].status = "queued"
          /\ \A j \in 1..(i - 1) : routes.tasks[j].status # "queued"
          /\ routes' = [routes EXCEPT
                           !.tasks[i].status = "running",
                           !.searches = IF routes.tasks[i].outcome.raised
                                        THEN @ ELSE @ + 1]
    /\ UNCHANGED <<graph, finder, pareto, cost, value, cache, calls>>

\* the _search_single of a worker thread ends: its future is finished and
\* holds the candidate, None or the exception
WorkerFinish ==
    /\ routes.pc = "sweep"
    /\ routes.call.config.use_parallel
    /\ \E i \in Running(routes.tasks) :
          /\ routes' = [routes EXCEPT !.tasks[i].status = "finished"]
          /\ graph' = after_lookups(graph, routes.tasks[i].outcome.node_reads,
                                    routes.tasks[i].outcome.neighbor_reads)
    /\ UNCHANGED <<finder, pareto, cost, value, cache, calls>>

\* as_completed yields a finished future: append its candidate; "except
\* Exception: pass" drops an exception
CollectCompleted ==
    /\ routes.pc = "sweep"
    /\ routes.call.config.use_parallel
    /\ \E i \in DOMAIN routes.tasks :
          /\ routes.tasks[i].status = "finished"
          /\ routes' = [routes EXCEPT
                           !.tasks[i].status = "collected",
                           !.candidates =
                               IF routes.tasks[i].outcome.raised THEN @
                               ELSE collect(@, routes.tasks[i].outcome)]
    /\ UNCHANGED <<graph, finder, pareto, cost, value, cache, calls>>

\* every future was yielded: _search_parallel returns candidates
SearchParallelReturn ==
    /\ routes.pc = "sweep"
    /\ routes.call.config.use_parallel
    /\ \A i \in DOMAIN routes.tasks : routes.tasks[i].status = "collected"
    /\ routes' = [routes EXCEPT !.pc = "select"]
    /\ UNCHANGED <<graph, finder, pareto, cost, value, cache, calls>>

\* select_top_k, _to_route_infos, return
FindRoutesReturn ==
    /\ routes.pc = "select"
    /\ routes' = find_routes_return(graph, routes)
    /\ graph' = after_lookups(graph, find_routes_return_reads(routes), {})
    /\ UNCHANGED <<finder, pareto, cost, value, cache, calls>>

NextRoutes ==
    \/ FindRoutesCall
    \/ FindRoutesAgain
    \/ SearchSequential
    \/ WorkerStart
    \/ WorkerFinish
    \/ CollectCompleted
    \/ SearchParallelReturn
    \/ FindRoutesReturn

SpecRoutes == InitRoutes /\ [][NextRoutes]_vars

(***************************************************************************)
(* Claims about find_routes                                                *)
(***************************************************************************)
\* a call was made and has the arguments the validation is to reject
InvalidTargets ==
    /\ routes.pc # "idle"
    /\ Len(routes.call.target_curve) >= 2
    /\ graph.nodes # <<>>
    /\ \/ routes.call.target_distance_km <= 0
       \/ routes.call.max_crossings < 0

\* C5: find_routes called with target_distance_km <= 0 or max_crossings < 0
\* (curve of two or more points, non-empty graph) fails with the validation
\* error whatever use_parallel is, before any A* search runs, and never
\* returns a list.
C5_InvalidTargetsAreRejected ==
    InvalidTargets =>
        /\ routes.pc # "done"
        /\ routes.searches = 0
        /\ (routes.pc = "raised" => routes.error = "ValueError")

\* the candidates of the sequential sweep over the same curves and weights
SequentialSweep ==
    search_sequential(graph, routes.rotated_curves, routes.weights,
                      routes.call.target_distance_km, routes.call.max_crossings,
                      routes.start_node_id, routes.call.config.max_iterations)

PathsOf(candidates) == {candidates[i].path : i \in DOMAIN candidates}

\* C6: for the same graph, rotated curves, weights, target distance, crossing
\* limit, start node and iteration budget, the set of candidate paths the
\* parallel sweep collects equals the set the sequential sweep collects, for
\* every worker count and every completion order.
C6_ParallelSetEqualsSequentialSet ==
    (routes.pc = "select" /\ routes.call.config.use_parallel) =>
        LET sequential == SequentialSweep.candidates
        IN  /\ PathsOf(routes.candidates) = PathsOf(sequential)
            /\ Range(routes.candidates) = Range(sequential)
            /\ Len(routes.candidates) = Len(sequential)

\* two workers, the sweep found two different walks, and the futures were
\* collected in an order that is not the submission order
C6_Witness ==
    /\ routes.pc = "select"
    /\ routes.call.config.use_parallel
    /\ routes.call.config.max_workers >= 2
    /\ Cardinality(PathsOf(routes.candidates)) >= 2
    /\ routes.candidates # SequentialSweep.candidates

\* C7: two runs of the search with identical graph, target curve, target
\* distance, crossing limit, start node and configuration return identical
\* RouteInfo sequences.
C7_SecondRunReturnsTheSame ==
    (routes.pc \in {"done", "raised"} /\ routes.run = 2) =>
        Outcome(routes) = routes.first[1]

\* the call has a positive target distance, a non-negative crossing limit
\* and a configuration the weight sampler accepts
ValidArguments ==
    /\ routes.call.target_distance_km > 0
    /\ routes.call.max_crossings >= 0
    /\ routes.call.config.n_weight_samples > 4

\* the cases of C12: a curve of fewer than two points, or a graph of at most
\* one node searched with valid arguments
DegenerateInput ==
    /\ routes.pc # "idle"
    /\ \/ Len(routes.call.target_curve) < 2
       \/ Len(graph.nodes) <= 1 /\ ValidArguments

CalledOnTheLine ==
    /\ routes.pc # "idle"
    /\ graph = LineGraph
    /\ Len(routes.call.target_curve) >= 2
    /\ ValidArguments

\* C13: on a graph without cycles (the two-way line 1-2-3-4) find_path
\* returns null from the start node of every search, and find_routes called
\* without a start node returns an empty result and raises no exception.
C13_NoCycleNoResultNoException ==
    CalledOnTheLine =>
        /\ routes.candidates = <<>>
        /\ routes.result = <<>>
        /\ routes.call.start_node_id = <<>> =>
               routes.pc = "done" /\ routes.error = "none"

\* ids of the nodes of S (positions in the node table) nearest to the
\* coordinate
NearestIds(g, S, c) ==
    {g.nodes[i].id : i \in {x \in S : \A y \in S :
        haversine(c.lat, c.lng, g.nodes[x].lat, g.nodes[x].lng)
            <= haversine(c.lat, c.lng, g.nodes[y].lat, g.nodes[y].lng)}}

\* positions of the nodes with at least two neighbours
Junctions(g) ==
    {i \in DOMAIN g.nodes : Cardinality(get_neighbors(g, g.nodes[i].id)) >= 2}

\* C15: when find_routes is called without a start node (curve of two or
\* more points, non-empty graph, valid arguments) the call does not fail in
\* the start-node selection, and the searches start from a node nearest to
\* the first curve point among the nodes with at least two neighbours, or
\* among all nodes when no node has two neighbours.
C15_StartIsNearestJunction ==
    (/\ routes.pc # "idle"
     /\ routes.call.start_node_id = <<>>
     /\ Len(routes.call.target_curve) >= 2
     /\ graph.nodes # <<>>
     /\ ValidArguments)
        => /\ routes.pc # "raised"
           /\ routes.start_node_id \in
                 NearestIds(graph,
                            IF Junctions(graph) # {} THEN Junctions(graph)
                            ELSE DOMAIN graph.nodes,
                            routes.call.target_curve[1])

\* a call whose sweep is over: a curve of two or more points, a start node
\* given, a positive target distance and a non-negative crossing limit
SweepOver ==
    /\ routes.pc \in {"select", "done", "raised"}
    /\ Len(routes.call.target_curve) >= 2
    /\ routes.call.start_node_id # <<>>
    /\ routes.call.target_distance_km > 0
    /\ routes.call.max_crossings >= 0

\* C26: with n_weight_samples = Nw >= 1 and n_rotations = Nr in 1..6,
\* find_routes runs exactly Nr * Nw A* searches, one per pair of a rotated
\* curve and a weight.
C26_SearchesAreRotationsTimesWeights ==
    (/\ SweepOver
     /\ routes.call.config.n_weight_samples >= 1
     /\ routes.call.config.n_rotations \in 1..6) =>
        /\ routes.pc # "raised"
        /\ routes.searches =
               routes.call.config.n_rotations * routes.call.config.n_weight_samples

\* C27: the routes returned by one find_routes call are pairwise distinct:
\* no two of them follow the same node sequence.
C27_ReturnedRoutesAreDistinct ==
    routes.pc = "done" =>
        \A i, j \in DOMAIN routes.result :
            i # j => routes.result[i].coordinates # routes.result[j].coordinates

\* a call with valid arguments and a start node whose target curve has two
\* or more points, all of them the same point
AllCoincide ==
    /\ routes.pc # "idle"
    /\ Len(routes.call.target_curve) >= 2
    /\ \A i, j \in DOMAIN routes.call.target_curve :
           routes.call.target_curve[i] = routes.call.target_curve[j]
    /\ routes.call.start_node_id # <<>>
    /\ ValidArguments

\* C29: when all points of the target curve coincide, the rotation step
\* yields no rotated curve, no A* search runs and find_routes returns the
\* empty result.
C29_CoincidentCurveYieldsNothing ==
    AllCoincide =>
        /\ routes.rotated_curves = <<>>
        /\ routes.searches = 0
        /\ routes.result = <<>>

(***************************************************************************)
(* Specification of the searches on one shared RoadGraph: find_path and    *)
(* find_path_to_goal on a finder, and find_routes on a RouteFinder, each   *)
(* handing its lookups to the graph                                        *)
(***************************************************************************)
\* the triangle, whose edge 3-7 leads to an id the node table lacks, and the
\* two triangles sharing node 1
SharedGraphs == {TriangleGraph, BowtieGraph}

\* goal node ids tried: a node of both graphs and the id 7 no graph holds
GoalIds == {3, 7}

\* the program holds one searching object: a finder yet to be constructed,
\* or a RouteFinder
InitShared ==
    /\ graph \in SharedGraphs
    /\ \/ finder = IdleFinder /\ routes = [pc |-> "none"]
       \/ finder = [pc |-> "none"] /\ routes = IdleRoutes
    /\ pareto = IdlePareto
    /\ cost = IdleCost
    /\ value = IdleValue
    /\ cache = IdleCache
    /\ calls = <<>>

\* pathfinder.find_path_to_goal(start_node_id, goal_node_id, max_iterations),
\* up to the loop
FindPathToGoalCall ==
    /\ finder.pc = "new"
    /\ \E start \in StartIds, goal \in GoalIds, mi \in {0, MaxIterations} :
          /\ finder' = find_path_to_goal_enter(graph, finder, start, goal, mi)
          /\ graph' = after_lookups(graph, {start, goal}, {})
    /\ UNCHANGED <<pareto, routes, cost, value, cache, calls>>

\* one iteration of the loop of find_path_to_goal
FindPathToGoalIterate ==
    /\ finder.pc = "goal_loop"
    /\ LoopContinues(finder)
    /\ finder' = find_path_to_goal_iteration(graph, finder)
    /\ graph' = after_lookups(graph, goal_iteration_node_reads(graph, finder),
                              goal_iteration_neighbor_reads(graph, finder))
    /\ UNCHANGED <<pareto, routes, cost, value, cache, calls>>

\* the loop of find_path_to_goal ended without reaching the goal: return None
FindPathToGoalReturn ==
    /\ finder.pc = "goal_loop"
    /\ ~LoopContinues(finder)
    /\ finder' = [finder EXCEPT !.pc = "goal_done"]
    /\ UNCHANGED <<graph, pareto, routes, cost, value, cache, calls>>

NextGoal ==
    FindPathToGoalCall \/ FindPathToGoalIterate \/ FindPathToGoalReturn

NextShared == NextAStar \/ NextGoal \/ NextRoutes

SpecShared == InitShared /\ [][NextShared]_vars

(***************************************************************************)
(* Claims about the shared graph                                           *)
(***************************************************************************)
\* C30: a search never writes to the shared RoadGraph: no step of find_path,
\* find_path_to_goal or find_routes (sequential or with worker threads in
\* any interleaving) changes the node table, the edge table or the
\* adjacency, lookups of unknown node ids included.
C30_SearchNeverWritesGraph == [][graph' = graph]_vars

\* find_path returned a closed walk after expanding a node one of whose
\* neighbour ids the node table lacks
C30_Witness ==
    /\ finder.pc = "done"
    /\ finder.result # <<>>
    /\ \E n \in DOMAIN calls :
          /\ calls[n].expanded
          /\ \E x \in get_neighbors(graph, calls[n].node_id) : ~HasNode(graph, x)

(***************************************************************************)
(* Specification of one CrossingPenaltyCalculator: the constructor, then   *)
(* one call on a path over the graph (the calculator only holds            *)
(* max_crossings, which no call changes)                                   *)
(***************************************************************************)
\* longest path handed to the calculator
MaxPathLen == 4

\* largest crossing limit
MaxCrossings == 2

\* the square of the cost tests: nodes 2 and 4 carry a traffic signal
SignalGraph ==
    BuildGraph(<< Node(1, 0, 0, FALSE), Node(2, 0, 8, TRUE),
                  Node(3, 8, 8, FALSE), Node(4, 8, 0, TRUE) >>,
               << Edge(1, 1, 2, 88, FALSE), Edge(2, 2, 3, 111, FALSE),
                  Edge(3, 3, 4, 88, FALSE), Edge(4, 4, 1, 111, FALSE) >>)

\* node ids of the graph and the id 7 it does not hold, in any order, with
\* repetitions
NodeIdPaths == UNION {[1..n -> {1, 2, 3, 4, 7}] : n \in 0..MaxPathLen}

InitCrossing ==
    /\ graph = SignalGraph
    /\ finder = IdleFinder
    /\ pareto = IdlePareto
    /\ routes = IdleRoutes
    /\ cost = IdleCost
    /\ value = IdleValue
    /\ cache = IdleCache
    /\ calls = <<>>

\* calculator = CrossingPenaltyCalculator(max_crossings)
CrossingConstruct ==
    /\ cost.op = "idle"
    /\ \E K \in -1..MaxCrossings : cost' = CrossingPenaltyCalculator(K)
    /\ UNCHANGED <<graph, finder, pareto, routes, value, cache, calls>>

\* calculator.count_traffic_lights(path, graph)
CountTrafficLights ==
    /\ cost.op = "new"
    /\ \E path \in NodeIdPaths :
          cost' = [op |-> "count_traffic_lights",
                   max_crossings |-> cost.max_crossings, path |-> path,
                   result |-> count_traffic_lights(path, graph)]
    /\ UNCHANGED <<graph, finder, pareto, routes, value, cache, calls>>

\* calculator.calculate_penalty(path, graph)
CalculatePenalty ==
    /\ cost.op = "new"
    /\ \E path \in NodeIdPaths :
          cost' = [op |-> "calculate_penalty",
                   max_crossings |-> cost.max_crossings, path |-> path,
                   result |-> crossing_raw_penalty(path, graph,
                                                   cost.max_crossings)]
    /\ UNCHANGED <<graph, finder, pareto, routes, value, cache, calls>>

\* calculator.calculate_normalized_penalty(path, graph)
CalculateNormalizedPenalty ==
    /\ cost.op = "new"
    /\ \E path \in NodeIdPaths :
          cost' = [op |-> "calculate_normalized_penalty",
                   max_crossings |-> cost.max_crossings, path |-> path,
                   result |-> calculate_normalized_penalty(
                                  path, graph, cost.max_crossings)]
    /\ UNCHANGED <<graph, finder, pareto, routes, value, cache, calls>>

NextCrossing ==
    \/ CrossingConstruct
    \/ CountTrafficLights
    \/ CalculatePenalty
    \/ CalculateNormalizedPenalty

SpecCrossing == InitCrossing /\ [][NextCrossing]_vars

(***************************************************************************)
(* Claims about the crossing penalty                                       *)
(***************************************************************************)
Signalised(g, node_id) ==
    \E i \in DOMAIN g.nodes :
        g.nodes[i].id = node_id /\ g.nodes[i].has_traffic_light

\* T: signalised nodes at the positions strictly between the first and the
\* last one
InnerSignals(path, g) ==
    Cardinality({i \in DOMAIN path :
        i # 1 /\ i # Len(path) /\ Signalised(g, path[i])})

WeightUnit == 1000000

\* atol = 1e-6 of the np.isclose call
IsCloseAtol == 1

\* rtol of the np.isclose call, left at numpy's default 1e-5
IsCloseRtol == 10

\* np.isclose(total, 1.0, atol=1e-6): |total - 1.0| <= atol + rtol * |1.0|
isclose_one(total) == Abs(total - WeightUnit) <= IsCloseAtol + IsCloseRtol

\* WeightVector(alpha, beta, gamma) with __post_init__: the object, or the
\* ValueError raised for the arguments
WeightVector(alpha, beta, gamma) ==
    [op |-> "WeightVector", alpha |-> alpha, beta |-> beta, gamma |-> gamma,
     error |-> IF isclose_one(alpha + beta + gamma) THEN "none"
               ELSE "ValueError"]

\* Constraints(target_distance_km, max_traffic_lights): a dataclass without
\* __post_init__; distance_tolerance keeps its default 0.1 (in percent)
Constraints(target_distance_km, max_traffic_lights) ==
    [op |-> "Constraints", target_distance_km |-> target_distance_km,
     max_traffic_lights |-> max_traffic_lights, distance_tolerance |-> 10,
     error |-> "none"]

\* weight components tried, in millionths
WeightComponents == {-300000, 0, 5, 20, 200000, 500000, 1000000, 1300000}

\* target distances (100 m) and signal limits tried
ConstraintDistances == {-10, 0, 10, 50}

ConstraintLights == {-1, 0, 3}

InitValues ==
    /\ graph = EmptyGraph
    /\ finder = IdleFinder
    /\ pareto = IdlePareto
    /\ routes = IdleRoutes
    /\ cost = IdleCost
    /\ value = IdleValue
    /\ cache = IdleCache
    /\ calls = <<>>

\* WeightVector(alpha=..., beta=..., gamma=...)
ConstructWeightVector ==
    /\ \E alpha \in WeightComponents, beta \in WeightComponents,
          gamma \in WeightComponents :
          value' = WeightVector(alpha, beta, gamma)
    /\ UNCHANGED <<graph, finder, pareto, routes, cost, cache, calls>>

\* Constraints(target_distance_km=..., max_traffic_lights=...)
ConstructConstraints ==
    /\ \E distance \in ConstraintDistances, lights \in ConstraintLights :
          value' = Constraints(distance, lights)
    /\ UNCHANGED <<graph, finder, pareto, routes, cost, cache, calls>>

NextValues == ConstructWeightVector \/ ConstructConstraints

SpecValues == InitValues /\ [][NextValues]_vars

(***************************************************************************)
(* Claims about the value objects                                          *)
(***************************************************************************)
\* the triple is on the 2-simplex: no negative component, sum 1 within 1e-6
OnSimplex(alpha, beta, gamma) ==
    /\ alpha >= 0
    /\ beta >= 0
    /\ gamma >= 0
    /\ Abs(alpha + beta + gamma - WeightUnit) <= 1

\* C16: every WeightVector that can be constructed lies on the 2-simplex
\* (components >= 0, sum 1 within 1e-6), and constructing any other triple
\* is rejected with an error.
C16_WeightVectorOnSimplex ==
    value.op = "WeightVector" =>
        (value.error = "none" <=>
            OnSimplex(value.alpha, value.beta, value.gamma))

\* C20: constructing Constraints with target_distance_km <= 0 or with
\* max_traffic_lights < 0 is rejected with a ValueError.
C20_InvalidConstraintsAreRejected ==
    (/\ value.op = "Constraints"
     /\ \/ value.target_distance_km <= 0
        \/ value.max_traffic_lights < 0)
        => value.error = "ValueError"

(***************************************************************************)
(* Specification of one RoadGraph built by add_node and add_edge calls in  *)
(* any order; calls is the log of the calls made, oldest first             *)
(***************************************************************************)
\* most calls made on one graph
MaxGraphCalls == 3

\* nodes 1..3; adding a node again replaces its record
GraphNodes == {Node(id, 0, 8 * id, FALSE) : id \in 1..3}

\* edges with ids 1 and 2 (an id added again replaces the edge), two-way or
\* one-way, between nodes that may not have been added
GraphEdges ==
    {Edge(id, st[1], st[2], 80, oneway) :
        id \in 1..2, st \in {<<1, 2>>, <<2, 3>>, <<3, 1>>, <<2, 1>>},
        oneway \in BOOLEAN}

InitGraph ==
    /\ graph = EmptyGraph
    /\ finder = IdleFinder
    /\ pareto = IdlePareto
    /\ routes = IdleRoutes
    /\ cost = IdleCost
    /\ value = IdleValue
    /\ cache = IdleCache
    /\ calls = <<>>

\* graph.add_node(node)
AddNode ==
    /\ Len(calls) < MaxGraphCalls
    /\ \E node \in GraphNodes :
          /\ graph' = add_node(graph, node)
          /\ calls' = Append(calls, [op |-> "add_node", node |-> node])
    /\ UNCHANGED <<finder, pareto, routes, cost, value, cache>>

\* graph.add_edge(edge)
AddEdge ==
    /\ Len(calls) < MaxGraphCalls
    /\ \E edge \in GraphEdges :
          /\ graph' = add_edge(graph, edge)
          /\ calls' = Append(calls, [op |-> "add_edge", edge |-> edge])
    /\ UNCHANGED <<finder, pareto, routes, cost, value, cache>>

NextGraph == AddNode \/ AddEdge

SpecGraph == InitGraph /\ [][NextGraph]_vars

(***************************************************************************)
(* Claims about RoadGraph                                                  *)
(***************************************************************************)
\* the edge is in the neighbour sets: target among the neighbours of the
\* source, and for a two-way edge source among those of the target
InAdjacency(g, edge) ==
    /\ edge.target_id \in get_neighbors(g, edge.source_id)
    /\ ~edge.is_oneway => edge.source_id \in get_neighbors(g, edge.target_id)

\* C17: after any sequence of add_node and add_edge calls, for every edge
\* (u, v) in the edge table v is in get_neighbors(u), and u is in
\* get_neighbors(v) if the edge is two-way; no later call, add_node for an
\* end of the edge in particular, removes a neighbour an add_edge call put
\* there.
C17_EdgesAreInAdjacency ==
    /\ \A i \in DOMAIN graph.edges : InAdjacency(graph, graph.edges[i])
    /\ \A c \in DOMAIN calls :
          calls[c].op = "add_edge" => InAdjacency(graph, calls[c].edge)

\* a two-way edge was added before either of its ends, then add_node was
\* called for one end: the node is in the node table and still has the other
\* end as its neighbour
C17_Witness ==
    \E c \in DOMAIN calls, d \in DOMAIN calls :
        /\ c < d
        /\ calls[c].op = "add_edge"
        /\ ~calls[c].edge.is_oneway
        /\ calls[d].op = "add_node"
        /\ calls[d].node.id = calls[c].edge.target_id
        /\ \A b \in 1..(c - 1) : calls[b].op = "add_edge"
        /\ HasNode(graph, calls[d].node.id)
        /\ calls[c].edge.source_id \in get_neighbors(graph, calls[d].node.id)

(***************************************************************************)
(* GraphCacheService (data/cache_service.py): one <key>.json file per key  *)
(* in the cache directory.  The directory starts empty and holds no .pkl   *)
(* file: nothing in the class writes one, so the pickle branch of get      *)
(* finds nothing.  calls is the log of the calls made, oldest first.       *)
(***************************************************************************)
\* _save_to_json: the document written, node and edge dicts in table order
save_to_json(g) ==
    [readable |-> TRUE,
     nodes |-> [i \in DOMAIN g.nodes |-> g.nodes[i]],
     edges |-> [i \in DOMAIN g.edges |-> g.edges[i]]]

\* what open(filepath, 'w') leaves when json.dump raises: a truncated file
\* json.load cannot read
TruncatedFile == [readable |-> FALSE, nodes |-> <<>>, edges |-> <<>>]

\* _load_from_json: a new RoadGraph, add_node for each node dict, then
\* add_edge for each edge dict
load_from_json(doc) == AddEdges(AddNodes(EmptyGraph, doc.nodes), doc.edges)

\* GraphCacheService(cache_dir) on an empty directory
GraphCacheService(keys) ==
    [files |-> [k \in keys |-> <<>>], op |-> "new", result |-> <<>>]

\* set(cache_key, graph): True after the file is written; False when
\* _save_to_json raises, before the file is opened ("untouched") or after
\* open(filepath, 'w') truncated it ("truncated")
cache_set(st, cache_key, g, outcome) ==
    [files |-> IF outcome = "written"
               THEN [st.files EXCEPT ![cache_key] = <<save_to_json(g)>>]
               ELSE IF outcome = "truncated"
               THEN [st.files EXCEPT ![cache_key] = <<TruncatedFile>>]
               ELSE st.files,
     op |-> "set", result |-> <<outcome = "written">>]

\* get(cache_key): the graph loaded from the JSON file, None (<<>>) when
\* the file is missing or cannot be read
cache_get(st, cache_key) ==
    [st EXCEPT !.op = "get",
               !.result = IF st.files[cache_key] # <<>>
                             /\ st.files[cache_key][1].readable
                          THEN <<load_from_json(st.files[cache_key][1])>>
                          ELSE <<>>]

\* delete(cache_key): unlink the file if it exists; True
cache_delete(st, cache_key) ==
    [files |-> [st.files EXCEPT ![cache_key] = <<>>],
     op |-> "delete", result |-> <<TRUE>>]

\* clear_all(): unlink every file; the number of files removed
cache_clear_all(st) ==
    [files |-> [k \in DOMAIN st.files |-> <<>>], op |-> "clear_all",
     result |-> <<Cardinality({k \in DOMAIN st.files : st.files[k] # <<>>})>>]

\* most calls made on one cache
MaxCacheCalls == 3

CacheKeys == {"key1", "key2"}

\* edge 1 was added twice: the edge table holds 2-3 only, the neighbour
\* sets still hold 1-2
ReplacedEdgeGraph ==
    BuildGraph(<< Node(1, 0, 0, FALSE), Node(2, 0, 8, TRUE),
                  Node(3, 8, 8, FALSE) >>,
               << Edge(1, 1, 2, 80, FALSE), Edge(1, 2, 3, 80, TRUE) >>)

CacheGraphs == {EmptyGraph, PairGraph, ReplacedEdgeGraph}

SetOutcomes == {"written", "untouched", "truncated"}

InitCache ==
    /\ graph = EmptyGraph
    /\ finder = IdleFinder
    /\ pareto = IdlePareto
    /\ routes = IdleRoutes
    /\ cost = IdleCost
    /\ value = IdleValue
    /\ cache = GraphCacheService(CacheKeys)
    /\ calls = <<>>

\* cache.set(cache_key, graph)
CacheSet ==
    /\ Len(calls) < MaxCacheCalls
    /\ \E k \in CacheKeys, g \in CacheGraphs, outcome \in SetOutcomes :
          /\ cache' = cache_set(cache, k, g, outcome)
          /\ calls' = Append(calls, [op |-> "set", key |-> k, graph |-> g,
                                     ok |-> outcome = "written"])
    /\ UNCHANGED <<graph, finder, pareto, routes, cost, value>>

\* cache.get(cache_key)
CacheGet ==
    /\ Len(calls) < MaxCacheCalls
    /\ \E k \in CacheKeys :
          /\ cache' = cache_get(cache, k)
          /\ calls' = Append(calls, [op |-> "get", key |-> k,
                                     graph |-> EmptyGraph, ok |-> TRUE])
    /\ UNCHANGED <<graph, finder, pareto, routes, cost, value>>

\* cache.delete(cache_key)
CacheDelete ==
    /\ Len(calls) < MaxCacheCalls
    /\ \E k \in CacheKeys :
          /\ cache' = cache_delete(cache, k)
          /\ calls' = Append(calls, [op |-> "delete", key |-> k,
                                     graph |-> EmptyGraph, ok |-> TRUE])
    /\ UNCHANGED <<graph, finder, pareto, routes, cost, value>>

\* cache.clear_all()
CacheClearAll ==
    /\ Len(calls) < MaxCacheCalls
    /\ cache' = cache_clear_all(cache)
    /\ calls' = Append(calls, [op |-> "clear_all", key |-> "",
                               graph |-> EmptyGraph, ok |-> TRUE])
    /\ UNCHANGED <<graph, finder, pareto, routes, cost, value>>

NextCache == CacheSet \/ CacheGet \/ CacheDelete \/ CacheClearAll

SpecCache == InitCache /\ [][NextCache]_vars

(***************************************************************************)
(* Claims about the cache                                                  *)
(***************************************************************************)
\* the call stores under k (a successful set) or removes what is stored
\* under k (delete of k, clear_all)
Touches(call, k) ==
    \/ call.op = "set" /\ call.key = k /\ call.ok
    \/ call.op = "delete" /\ call.key = k
    \/ call.op = "clear_all"

\* the graph most recently stored under k by a successful set and not
\* deleted or cleared since, among the first n calls; <<>> if there is none
LastStored(k, n) ==
    LET hits == {c \in 1..n : Touches(calls[c], k)}
    IN  IF hits = {} THEN <<>>
        ELSE LET c == CHOOSE x \in hits : \A y \in hits : y <= x
             IN  IF calls[c].op = "set" THEN <<calls[c].graph>> ELSE <<>>

\* C19: for any sequence of set, get, delete and clear_all calls, get(k)
\* returns a graph whose node table and edge table equal those of the graph
\* most recently stored under k by a successful set, and null when k was
\* never set or was deleted or cleared since; calls on other keys, delete
\* included, do not change it.
C19_GetReturnsLastStored ==
    (calls # <<>> /\ Last(calls).op = "get") =>
        LET stored == LastStored(Last(calls).key, Len(calls) - 1)
        IN  IF stored = <<>> THEN cache.result = <<>>
            ELSE /\ cache.result # <<>>
                 /\ cache.result[1].nodes = stored[1].nodes
                 /\ cache.result[1].edges = stored[1].edges

====
